---- MODULE Spec2Model ----
(***************************************************************************)
(* The v1 -> v2 migration engine of insights-rbac (migration_tool/migrate) *)
(* as a state machine over the relational store (Workspace and            *)
(* BindingMapping rows), the external relation-tuple store and the        *)
(* position of each migrate_data invocation.                               *)
(***************************************************************************)
EXTENDS Integers, Sequences, FiniteSets, TLC

\* ------------------------------------------------------------------ bounds
NumTenants == 2
MaxRuns == 2
MaxDualWrites == 1
MaxBindings == 3
MaxItems == 2
MaxPage == 2

\* ---------------------------------------------------------- relational data
\* Invocations of migrate_data that may be in progress at the same time.
Procs == {1, 2}

PublicTenant == 0
Tenants == 1..NumTenants
AllTenants == {PublicTenant} \cup Tenants

\* The tenant of end-to-end scenario 1: no roles, one platform-default group
\* holding its one, ordinary, principal.
ScenarioTenant == NumTenants + 1
TenantIds == AllTenants \cup {ScenarioTenant}

\* The Tenant tables the migration is run against: the populated deployment,
\* and the deployment of scenario 1.
TenantTables == {AllTenants, {PublicTenant, ScenarioTenant}}

tenant_name(t) == IF t = PublicTenant THEN <<"str", "public">> ELSE <<"str", "tenant", t>>
org_id(t) == <<"str", "org", t>>
AllOrgs == {org_id(t) : t \in AllTenants}

\* str(): a string is left as it is, any other value is rendered.
str(x) == IF x[1] = "str" THEN x ELSE <<"str">> \o x

ENV_NAME == <<"str", "env">>

\* Null values: no row, no uuid (a null foreign key), no resource filter.
NoRow == [uuid |-> <<"none">>]
NoUuid == <<"none">>
NoResource == <<"str", "none">>

\* Principals of a tenant, in queryset order: an ordinary user, a cross-account
\* user, an ordinary user who is in no group, and a service account.
principal_set(t) ==
    IF t = PublicTenant THEN <<>>
    ELSE IF t = ScenarioTenant
    THEN << [uuid |-> <<"pr", t, 1>>, tenant |-> t, type |-> "user", cross_account |-> FALSE] >>
    ELSE << [uuid |-> <<"pr", t, 1>>, tenant |-> t, type |-> "user", cross_account |-> FALSE],
            [uuid |-> <<"pr", t, 2>>, tenant |-> t, type |-> "user", cross_account |-> TRUE],
            [uuid |-> <<"pr", t, 3>>, tenant |-> t, type |-> "user", cross_account |-> FALSE],
            [uuid |-> <<"pr", t, 4>>, tenant |-> t, type |-> "service-account",
             cross_account |-> FALSE] >>

\* Groups of a tenant, in queryset order: one ordinary group holding the first
\* two principals; odd tenants also have a custom platform-default group with
\* the same members; the public tenant holds the platform-default definition
\* when publicDefault.
group_set(t, publicDefault) ==
    IF t = PublicTenant
    THEN IF publicDefault
         THEN << [uuid |-> <<"gr", t, 0>>, tenant |-> t, platform_default |-> TRUE,
                  principals |-> <<>>] >>
         ELSE <<>>
    ELSE IF t = ScenarioTenant
    THEN << [uuid |-> <<"gr", t, 2>>, tenant |-> t, platform_default |-> TRUE,
             principals |-> principal_set(t)] >>
    ELSE << [uuid |-> <<"gr", t, 1>>, tenant |-> t, platform_default |-> FALSE,
             principals |-> SubSeq(principal_set(t), 1, 2)] >>
         \o (IF t % 2 = 1
             THEN << [uuid |-> <<"gr", t, 2>>, tenant |-> t, platform_default |-> TRUE,
                      principals |-> SubSeq(principal_set(t), 1, 2)] >>
             ELSE <<>>)

\* A workspace that is not the default workspace of any tenant (a STANDARD one).
OtherWorkspace(t) == <<"str", "ws", 0 - t>>

\* Roles of a tenant, in queryset order.  Role 1 has one access without a
\* resource filter; role 2 has an unfiltered access and one filtered to a
\* non-default workspace.
role_set(t) ==
    IF t \in {PublicTenant, ScenarioTenant} THEN <<>>
    ELSE << [uuid |-> <<"ro", t, 1>>, tenant |-> t,
             access |-> << [application |-> "app1", resource |-> NoResource] >>],
            [uuid |-> <<"ro", t, 2>>, tenant |-> t,
             access |-> << [application |-> "app1", resource |-> NoResource],
                           [application |-> "app2", resource |-> OtherWorkspace(t)] >>] >>

AllRoles == UNION {{role_set(t)[i] : i \in DOMAIN role_set(t)} : t \in Tenants}

ExcludeAppsChoices == {{}, {"app2"}}

\* The allow-lists a call is given: none; the first tenant's organization; the
\* public tenant's organization together with the last tenant's.
OrgsChoices == {{}, {org_id(1)}, {org_id(PublicTenant), org_id(NumTenants)}}

\* --------------------------------------------------------------- sequences
Range(s) == {s[i] : i \in DOMAIN s}

\* ------------------------------------------------------- relationship tuples
\* create_relationship(resource_name, resource_id, subject_name, subject_id, relation)
create_relationship(resource_name, resource_id, subject_name, subject_id, relation) ==
    [resource_type |-> resource_name, resource_id |-> resource_id, relation |-> relation,
     subject_type |-> subject_name, subject_id |-> subject_id]

\* migrate_workspace's tuples with the ROOT workspace hung under the DEFAULT one.
WorkspaceRelationshipsSwapped(t, root_workspace, default_workspace) ==
    << create_relationship(<<"rbac", "workspace">>, str(root_workspace.uuid),
                           <<"rbac", "workspace">>, str(default_workspace.uuid), "parent"),
       create_relationship(<<"rbac", "workspace">>, str(root_workspace.uuid),
                           <<"rbac", "tenant">>, org_id(t), "parent"),
       create_relationship(<<"rbac", "tenant">>, str(org_id(t)),
                           <<"rbac", "platform">>, ENV_NAME, "platform") >>

\* The three tuples of migrate_workspace, in list order.
WorkspaceRelationships(t, root_workspace, default_workspace) ==
    << create_relationship(<<"rbac", "workspace">>, str(default_workspace.uuid),
                           <<"rbac", "workspace">>, str(root_workspace.uuid), "parent"),
       create_relationship(<<"rbac", "workspace">>, str(root_workspace.uuid),
                           <<"rbac", "tenant">>, org_id(t), "parent"),
       create_relationship(<<"rbac", "tenant">>, str(org_id(t)),
                           <<"rbac", "platform">>, ENV_NAME, "platform") >>

\* Tenant member edges for the principals of type user only.
UsersRelationshipsUsersOnly(t) ==
    LET IsUser(principal) == principal.type = "user"
        users == SelectSeq(principal_set(t), IsUser)
    IN [i \in DOMAIN users |->
          create_relationship(<<"rbac", "tenant">>, str(org_id(t)),
                              <<"rbac", "principal">>, str(users[i].uuid), "member")]

\* The tuples of migrate_users: one per principal of the tenant.
UsersRelationships(t) ==
    [i \in DOMAIN principal_set(t) |->
        create_relationship(<<"rbac", "tenant">>, str(org_id(t)),
                            <<"rbac", "principal">>, str(principal_set(t)[i].uuid), "member")]

RECURSIVE Flatten(_)
\* The concatenation of a sequence of sequences.
Flatten(ss) == IF ss = <<>> THEN <<>> ELSE Head(ss) \o Flatten(Tail(ss))

IsPlatformDefault(g) == g.platform_default

\* A filter on principals that keeps every principal.
AnyPrincipal(pr) == TRUE


\* A filter on groups that keeps every group.
AnyGroup(g) == TRUE

NotPlatformDefault(g) == ~g.platform_default
NotCrossAccount(pr) == ~pr.cross_account

\* The member edges of one group's explicit member list.
GroupMemberRelationships(group) ==
    [i \in DOMAIN group.principals |->
        create_relationship(<<"rbac", "group">>, str(group.uuid),
                            <<"rbac", "principal">>, str(group.principals[i].uuid), "member")]

\* tenant.group_set.exclude(platform_default=True), expanded to member edges.
ExplicitGroupRelationships(t, publicDefault) ==
    LET groups == SelectSeq(group_set(t, publicDefault), NotPlatformDefault)
    IN Flatten([i \in DOMAIN groups |-> GroupMemberRelationships(groups[i])])

\* A lookup that always takes the public tenant's platform-default group.
group_defaultPublicOnly(t, publicDefault) ==
    LET pub == SelectSeq(group_set(PublicTenant, publicDefault), IsPlatformDefault)
    IN IF Len(pub) = 1 THEN Head(pub) ELSE NoRow

\* The effective platform-default group: the tenant's own, else the public
\* tenant's; NoRow when the public tenant has none (the lookup raises).
group_default(t, publicDefault) ==
    LET own == SelectSeq(group_set(t, publicDefault), IsPlatformDefault)
        pub == SelectSeq(group_set(PublicTenant, publicDefault), IsPlatformDefault)
    IN IF own # <<>> THEN Head(own)
       ELSE IF Len(pub) = 1 THEN Head(pub)
       ELSE NoRow

\* Platform-default member edges written only where the public tenant's group
\* stands in for a missing own one.
DefaultGroupRelationshipsFallbackOnly(t, publicDefault) ==
    LET own == SelectSeq(group_set(t, publicDefault), IsPlatformDefault)
        user_set == SelectSeq(principal_set(t), NotCrossAccount)
    IN IF own # <<>> THEN <<>>
       ELSE [i \in DOMAIN user_set |->
               create_relationship(<<"rbac", "group">>, str(group_default(t, publicDefault).uuid),
                                   <<"rbac", "principal">>, str(user_set[i].uuid), "member")]

\* The member edges from the effective platform-default group.
DefaultGroupRelationships(t, publicDefault) ==
    LET user_set == SelectSeq(principal_set(t), NotCrossAccount)
    IN [i \in DOMAIN user_set |->
          create_relationship(<<"rbac", "group">>, str(group_default(t, publicDefault).uuid),
                              <<"rbac", "principal">>, str(user_set[i].uuid), "member")]

\* ------------------------------------------------------------- role translation
\* The resource scope of an access: its filter, else the default workspace.
ScopeOf(access, default_workspace) ==
    IF access.resource = NoResource THEN str(default_workspace.uuid) ELSE access.resource

RECURSIVE Scopes(_, _, _)
\* The distinct scopes of a role's accesses, in order of first appearance.
Scopes(accesses, default_workspace, seen) ==
    IF accesses = <<>> THEN <<>>
    ELSE LET sc == ScopeOf(Head(accesses), default_workspace)
         IN IF sc \in seen THEN Scopes(Tail(accesses), default_workspace, seen)
            ELSE <<sc>> \o Scopes(Tail(accesses), default_workspace, seen \cup {sc})

\* The groups a role is bound to through policies: the tenant's ordinary group.
SubjectGroups(role) == << <<"gr", role.tenant, 1>> >>

\* v1_role_to_v2_bindings: one BindingMapping-like object per resource scope of
\* the role; a scope already recorded in current_bindings keeps its mapping.
v1_role_to_v2_bindings(role, default_workspace, current_bindings) ==
    LET scopes == Scopes(role.access, default_workspace, {})
        Prior(sc) == {m \in current_bindings : m.resource_id = sc}
        Fresh(i) == [role |-> role.uuid,
                     resource_type |-> <<"rbac", "workspace">>,
                     resource_id |-> scopes[i],
                     mappings |-> [id |-> <<"str", "bd">> \o role.uuid \o <<i>>,
                                   role |-> role.uuid,
                                   groups |-> SubjectGroups(role)]]
    IN [i \in DOMAIN scopes |->
          IF Prior(scopes[i]) # {} THEN CHOOSE m \in Prior(scopes[i]) : TRUE ELSE Fresh(i)]

\* BindingMapping.get_role_binding(): the V2rolebinding of a mapping.
get_role_binding(m) ==
    [id |-> m.mappings.id, role |-> m.mappings.role, groups |-> m.mappings.groups,
     resource |-> [resource_type |-> m.resource_type, resource_id |-> m.resource_id]]

\* V2rolebinding.as_tuples(): binding -> role, binding -> each subject group,
\* resource -> binding.
as_tuples(b) ==
    << create_relationship(<<"rbac", "role_binding">>, b.id, <<"rbac", "role">>, str(b.role), "role") >>
    \o [i \in DOMAIN b.groups |->
          create_relationship(<<"rbac", "role_binding">>, b.id,
                              <<"rbac", "group">>, str(b.groups[i]), "subject")]
    \o << create_relationship(b.resource.resource_type, b.resource.resource_id,
                              <<"rbac", "role_binding">>, b.id, "binding") >>

\* A generator that adds no parent edge.
get_kessel_relation_tuplesNoParent(v2_role_bindings, default_workspace) ==
    Flatten([i \in DOMAIN v2_role_bindings |-> as_tuples(v2_role_bindings[i])])

RECURSIVE get_kessel_relation_tuplesDedup(_, _)
\* A generator that adds the parent edge of a workspace once only.
get_kessel_relation_tuplesDedup(v2_role_bindings, default_workspace) ==
    IF v2_role_bindings = <<>> THEN <<>>
    ELSE LET v2_role_binding == Head(v2_role_bindings)
             bound_resource == v2_role_binding.resource
             rest == get_kessel_relation_tuplesDedup(Tail(v2_role_bindings), default_workspace)
             parent == create_relationship(bound_resource.resource_type,
                                           bound_resource.resource_id,
                                           <<"rbac", "workspace">>,
                                           str(default_workspace.uuid), "parent")
         IN as_tuples(v2_role_binding)
            \o (IF /\ bound_resource.resource_type = <<"rbac", "workspace">>
                   /\ ~(bound_resource.resource_id = str(default_workspace.uuid))
                   /\ \A k \in DOMAIN rest : rest[k] # parent
                THEN <<parent>>
                ELSE <<>>)
            \o rest

RECURSIVE get_kessel_relation_tuples(_, _)
\* Each binding's own tuples, then a parent edge to the default workspace when
\* the binding's resource is a workspace other than the default one.
get_kessel_relation_tuples(v2_role_bindings, default_workspace) ==
    IF v2_role_bindings = <<>> THEN <<>>
    ELSE LET v2_role_binding == Head(v2_role_bindings)
             bound_resource == v2_role_binding.resource
         IN as_tuples(v2_role_binding)
            \o (IF /\ bound_resource.resource_type = <<"rbac", "workspace">>
                   /\ ~(bound_resource.resource_id = str(default_workspace.uuid))
                THEN << create_relationship(bound_resource.resource_type,
                                            bound_resource.resource_id,
                                            <<"rbac", "workspace">>,
                                            str(default_workspace.uuid), "parent") >>
                ELSE <<>>)
            \o get_kessel_relation_tuples(Tail(v2_role_bindings), default_workspace)

\* ------------------------------------------------------------------- state
VARIABLES
    workspaces,        \* Workspace rows
    bindingMappings,   \* BindingMapping rows
    store,             \* tuples held by the external relation-tuple store
    hasPublicDefault,  \* whether the public tenant defines a platform-default group
    tenantRows,        \* Tenant rows
    runs,              \* invocations of migrate_data started so far
    pc,                \* position of each invocation
    args,              \* arguments of each invocation
    queue,             \* tenants the cursor of each invocation has yet to yield
    count,             \* migrate_data's count
    total,             \* migrate_data's total
    loc,               \* locals of migrate_data_for_tenant and its callees
    log,               \* steps completed by each invocation, in order
    err,               \* the exception that left each invocation
    firstBoot,         \* result of the first completed migrate_workspace per tenant
    firstMig,          \* the first completed migration of each tenant
    proxyCall          \* the call of the principal proxy: its arguments and what it returned

vars == <<workspaces, bindingMappings, store, hasPublicDefault, tenantRows, runs, pc, args,
          queue, count, total, loc, log, err, firstBoot, firstMig, proxyCall>>

\* What the migration does not write: the rows of the administrative system,
\* and the principal proxy's call.
inputs == <<hasPublicDefault, tenantRows, proxyCall>>

\* What is remembered of earlier calls of migrate_workspace and migrate_data_for_tenant.
firsts == <<firstBoot, firstMig>>

db == <<workspaces, bindingMappings, store>>

NoTenant == 0 - 1
NoError == [kind |-> "none", tenant |-> NoTenant, step |-> "none"]
NoBoot == [root |-> NoRow, default |-> NoRow, rels |-> <<>>]
NoMig == [run |-> 0, write_relationships |-> FALSE, exclude_apps |-> {}, log |-> <<>>]

\* created, retried and second are bookkeeping of the current migrate_workspace
\* call: the rows it created, the creates that met IntegrityError and fell back
\* to the get, and whether an earlier call for the tenant had already returned;
\* it is cleared by the statement after the call.
InitLoc ==
    [tenant |-> NoTenant, root |-> NoRow, default |-> NoRow, created |-> 0,
     retried |-> 0, second |-> FALSE,
     roles |-> <<>>, role |-> NoRow, mappings |-> <<>>, rels |-> <<>>]

InitArgs == [run |-> 0, write_relationships |-> FALSE, orgs |-> {}, exclude_apps |-> {}]

\* No call of the principal proxy.
NoCall == [call |-> "none", done |-> TRUE]

InitMigration ==
    /\ workspaces = {}
    /\ bindingMappings = {}
    /\ store = {}
    /\ hasPublicDefault \in BOOLEAN
    /\ tenantRows \in TenantTables
    /\ runs = 0
    /\ pc = [p \in Procs |-> "idle"]
    /\ args = [p \in Procs |-> InitArgs]
    /\ queue = [p \in Procs |-> <<>>]
    /\ count = [p \in Procs |-> 0]
    /\ total = [p \in Procs |-> 0]
    /\ loc = [p \in Procs |-> InitLoc]
    /\ log = [p \in Procs |-> <<>>]
    /\ err = [p \in Procs |-> NoError]
    /\ firstBoot = [t \in TenantIds |-> NoBoot]
    /\ firstMig = [t \in TenantIds |-> NoMig]

Init == InitMigration /\ proxyCall = NoCall

Event(step, p, rels) ==
    [step |-> step, tenant |-> loc[p].tenant,
     role |-> loc[p].role.uuid,
     rels |-> rels]

\* ------------------------------------------------------------ migrate_data
\* An allow-list applied to the whole Tenant table instead of to the queryset
\* that already excludes the public tenant.
SelectedTenantsOrgsFirst(orgs) ==
    IF orgs # {} THEN {t \in tenantRows : org_id(t) \in orgs}
    ELSE {t \in tenantRows : tenant_name(t) # <<"str", "public">>}

\* A selection that drops the allow-list.
SelectedTenantsIgnoresOrgs(orgs) ==
    {t \in tenantRows : tenant_name(t) # <<"str", "public">>}

\* The tenants a call selects: every tenant but the public one, restricted to
\* the orgs allow-list when that is not empty.
SelectedTenants(orgs) ==
    LET tenants == {t \in tenantRows : tenant_name(t) # <<"str", "public">>}
    IN IF orgs # {} THEN {t \in tenants : org_id(t) \in orgs} ELSE tenants

RECURSIVE SetToSeq(_)
\* The elements of a finite set of integers in ascending order.
SetToSeq(S) ==
    IF S = {} THEN <<>>
    ELSE LET m == CHOOSE x \in S : \A y \in S : x <= y
         IN <<m>> \o SetToSeq(S \ {m})

\* The cursor yields the selected tenants in primary-key order.
CursorOrders(S) ==
    {SetToSeq(S)}

\* A cursor that yields the same tenant again.
AdvanceStays(q) == q

\* The cursor after yielding its first tenant.
Advance(q) == Tail(q)

\* migrate_data is called with arguments drawn from the given choices: count
\* and total are set and the cursor is opened.
Call(p, orgsChoices, excludeChoices) ==
    /\ runs < MaxRuns
    /\ \E w \in BOOLEAN, orgs \in orgsChoices, ex \in excludeChoices :
         LET tenants == SelectedTenants(orgs)
         IN \E q \in CursorOrders(tenants) :
              /\ args' = [args EXCEPT ![p] = [run |-> runs + 1, write_relationships |-> w,
                                              orgs |-> orgs, exclude_apps |-> ex]]
              /\ total' = [total EXCEPT ![p] = Cardinality(tenants)]
              /\ queue' = [queue EXCEPT ![p] = q]
    /\ runs' = runs + 1
    /\ count' = [count EXCEPT ![p] = 0]
    /\ loc' = [loc EXCEPT ![p] = InitLoc]
    /\ log' = [log EXCEPT ![p] = <<>>]
    /\ err' = [err EXCEPT ![p] = NoError]
    /\ pc' = [pc EXCEPT ![p] = "next_tenant"]
    /\ UNCHANGED <<db, inputs, firsts>>

\* migrate_data is called, for the first time or after an earlier call returned
\* or raised.
StartRun(p) ==
    /\ pc[p] \in {"idle", "done", "failed"}
    /\ Call(p, OrgsChoices, ExcludeAppsChoices)

\* The for statement: the next tenant enters migrate_data_for_tenant, or the
\* cursor is exhausted and migrate_data returns.
NextTenant(p) ==
    /\ pc[p] = "next_tenant"
    /\ IF queue[p] = <<>>
       THEN /\ pc' = [pc EXCEPT ![p] = "done"]
            /\ UNCHANGED loc
       ELSE /\ pc' = [pc EXCEPT ![p] = "ws_root"]
            /\ loc' = [loc EXCEPT ![p] =
                         [InitLoc EXCEPT !.tenant = Head(queue[p]),
                                         !.second = firstBoot[Head(queue[p])] # NoBoot]]
    /\ UNCHANGED <<db, inputs, runs, args, queue, count, total, log, err, firsts>>

\* An exception handler that logs and goes on with the next tenant.
HandleExceptionSkips(p, kind) ==
    /\ pc' = [pc EXCEPT ![p] = "next_tenant"]
    /\ err' = [err EXCEPT ![p] = [kind |-> kind, tenant |-> loc[p].tenant, step |-> pc[p]]]
    /\ queue' = [queue EXCEPT ![p] = Tail(@)]
    /\ UNCHANGED count

\* An exception handler that counts the failed tenant as completed.
HandleExceptionCounts(p, kind) ==
    /\ pc' = [pc EXCEPT ![p] = "failed"]
    /\ err' = [err EXCEPT ![p] = [kind |-> kind, tenant |-> loc[p].tenant, step |-> pc[p]]]
    /\ count' = [count EXCEPT ![p] = @ + 1]
    /\ UNCHANGED queue

\* except Exception as e: log it and raise e.  The call is left with the
\* exception; the cursor and the count stay as they are.
HandleException(p, kind) ==
    /\ pc' = [pc EXCEPT ![p] = "failed"]
    /\ err' = [err EXCEPT ![p] = [kind |-> kind, tenant |-> loc[p].tenant, step |-> pc[p]]]
    /\ UNCHANGED <<queue, count>>

\* A step of migrate_data_for_tenant that returns normally to position next.
Goto(p, next) ==
    /\ pc' = [pc EXCEPT ![p] = next]
    /\ UNCHANGED <<err, queue, count>>

\* ------------------------------------------------------- migrate_workspace
\* The unique index on Workspace: one ROOT and one DEFAULT row per tenant.
WorkspaceConflict(rows, row) ==
    /\ row.type \in {"root", "default"}
    /\ \E r \in rows : r.tenant = row.tenant /\ r.type = row.type

NewWorkspaceUuid(rows) == <<"ws", Cardinality(rows) + 1>>

\* The lookup and the row to create of the ROOT get_or_create.
RootKwargs(t) ==
    [tenant |-> t, type |-> "root", name |-> "Root Workspace"]

\* A DEFAULT lookup that leaves out parent=root_workspace.
DefaultKwargsNoParent(t, root_workspace) ==
    [tenant |-> t, type |-> "default", name |-> "Default Workspace"]

\* The lookup and the row to create of the DEFAULT get_or_create.
DefaultKwargs(t, root_workspace) ==
    [tenant |-> t, type |-> "default", parent |-> root_workspace.uuid,
     name |-> "Default Workspace"]

\* The rows a get_or_create lookup matches.
Matches(rows, kwargs) ==
    {r \in rows : \A f \in DOMAIN kwargs : r[f] = kwargs[f]}

\* The row Workspace.objects.create(**kwargs) inserts: parent is null unless given.
NewRow(rows, kwargs) ==
    [uuid |-> NewWorkspaceUuid(rows), tenant |-> kwargs.tenant, type |-> kwargs.type,
     name |-> kwargs.name,
     parent |-> IF "parent" \in DOMAIN kwargs THEN kwargs.parent ELSE NoUuid]

\* get_or_create, first half: get(**kwargs).  One match is returned, none leads
\* to the create, several raise MultipleObjectsReturned.
GetStep(p, kwargs, field, found, missing) ==
    LET m == Matches(workspaces, kwargs)
    IN /\ IF Cardinality(m) = 1
          THEN /\ loc' = [loc EXCEPT ![p][field] = CHOOSE r \in m : TRUE]
               /\ Goto(p, found)
          ELSE IF m = {}
          THEN /\ UNCHANGED loc
               /\ Goto(p, missing)
          ELSE /\ UNCHANGED loc
               /\ HandleException(p, "MultipleObjectsReturned")
       /\ UNCHANGED <<db, inputs, runs, args, total, log, firsts>>

\* A create that, on a dry run, returns the new row without saving it.
CreateStepDryRunUnsaved(p, kwargs, field, next) ==
    LET row == NewRow(workspaces, kwargs)
        m == Matches(workspaces, kwargs)
    IN /\ IF ~WorkspaceConflict(workspaces, row)
          THEN /\ workspaces' = IF args[p].write_relationships
                                THEN workspaces \cup {row} ELSE workspaces
               /\ loc' = [loc EXCEPT ![p][field] = row,
                                     ![p].created = loc[p].created + 1]
               /\ Goto(p, next)
          ELSE IF Cardinality(m) = 1
          THEN /\ UNCHANGED workspaces
               /\ loc' = [loc EXCEPT ![p][field] = CHOOSE r \in m : TRUE,
                                     ![p].retried = loc[p].retried + 1]
               /\ Goto(p, next)
          ELSE /\ UNCHANGED <<workspaces, loc>>
               /\ HandleException(p, IF m = {} THEN "IntegrityError"
                                                ELSE "MultipleObjectsReturned")
       /\ UNCHANGED <<bindingMappings, store, inputs, runs, args, total, log,
                      firsts>>

\* get_or_create, second half: create(**kwargs); on IntegrityError the get is
\* tried again and its row returned, and the error is raised if it finds none.
CreateStep(p, kwargs, field, next) ==
    LET row == NewRow(workspaces, kwargs)
        m == Matches(workspaces, kwargs)
    IN /\ IF ~WorkspaceConflict(workspaces, row)
          THEN /\ workspaces' = workspaces \cup {row}
               /\ loc' = [loc EXCEPT ![p][field] = row,
                                     ![p].created = loc[p].created + 1]
               /\ Goto(p, next)
          ELSE IF Cardinality(m) = 1
          THEN /\ UNCHANGED workspaces
               /\ loc' = [loc EXCEPT ![p][field] = CHOOSE r \in m : TRUE,
                                     ![p].retried = loc[p].retried + 1]
               /\ Goto(p, next)
          ELSE /\ UNCHANGED <<workspaces, loc>>
               /\ HandleException(p, IF m = {} THEN "IntegrityError"
                                                ELSE "MultipleObjectsReturned")
       /\ UNCHANGED <<bindingMappings, store, inputs, runs, args, total, log,
                      firsts>>

\* Workspace.objects.create in place of get_or_create: no lookup first.
WsRootCreateOnly(p) ==
    /\ pc[p] = "ws_root"
    /\ LET row == NewRow(workspaces, RootKwargs(loc[p].tenant))
       IN IF ~WorkspaceConflict(workspaces, row)
          THEN /\ workspaces' = workspaces \cup {row}
               /\ loc' = [loc EXCEPT ![p].root = row, ![p].created = loc[p].created + 1]
               /\ Goto(p, "ws_default")
          ELSE /\ UNCHANGED <<workspaces, loc>>
               /\ HandleException(p, "IntegrityError")
    /\ UNCHANGED <<bindingMappings, store, inputs, runs, args, total, log,
                   firsts>>

WsRootGet(p) ==
    /\ pc[p] = "ws_root"
    /\ GetStep(p, RootKwargs(loc[p].tenant), "root", "ws_default", "ws_root_create")

\* A hand-written get-then-create: the IntegrityError of a lost race is not caught.
WsRootCreateNoRetry(p) ==
    /\ pc[p] = "ws_root_create"
    /\ LET row == NewRow(workspaces, RootKwargs(loc[p].tenant))
       IN IF ~WorkspaceConflict(workspaces, row)
          THEN /\ workspaces' = workspaces \cup {row}
               /\ loc' = [loc EXCEPT ![p].root = row, ![p].created = loc[p].created + 1]
               /\ Goto(p, "ws_default")
          ELSE /\ UNCHANGED <<workspaces, loc>>
               /\ HandleException(p, "IntegrityError")
    /\ UNCHANGED <<bindingMappings, store, inputs, runs, args, total, log,
                   firsts>>

WsRootCreate(p) ==
    /\ pc[p] = "ws_root_create"
    /\ CreateStep(p, RootKwargs(loc[p].tenant), "root", "ws_default")

WsDefaultGet(p) ==
    /\ pc[p] = "ws_default"
    /\ GetStep(p, DefaultKwargs(loc[p].tenant, loc[p].root), "default", "ws_emit",
               "ws_default_create")

WsDefaultCreate(p) ==
    /\ pc[p] = "ws_default_create"
    /\ CreateStep(p, DefaultKwargs(loc[p].tenant, loc[p].root), "default", "ws_emit")

\* ------------------------------------------------------ output_relationships
\* A sink that writes to the store whatever the flag is.
OutputOkAlwaysWrites(p, step, rels, next) ==
    /\ store' = store \cup Range(rels)
    /\ log' = [log EXCEPT ![p] = Append(@, Event(step, p, rels))]
    /\ Goto(p, next)

\* output_relationships(relationships, write_relationships) returns: the tuples
\* reach the store only when writing is enabled.
OutputOk(p, step, rels, next) ==
    /\ store' = IF args[p].write_relationships THEN store \cup Range(rels) ELSE store
    /\ log' = [log EXCEPT ![p] = Append(@, Event(step, p, rels))]
    /\ Goto(p, next)

\* output_relationships raises: the store rejects the write.
OutputFails(p) ==
    /\ args[p].write_relationships
    /\ HandleException(p, "SinkError")
    /\ UNCHANGED <<store, log>>

\* The last statements of migrate_workspace: the three tuples are output and
\* the two rows returned.
WsEmit(p) ==
    /\ pc[p] = "ws_emit"
    /\ LET rels == WorkspaceRelationships(loc[p].tenant, loc[p].root, loc[p].default)
       IN \/ /\ OutputOk(p, "workspace", rels, "users")
             /\ firstBoot' =
                  IF firstBoot[loc[p].tenant] = NoBoot
                  THEN [firstBoot EXCEPT ![loc[p].tenant] =
                          [root |-> loc[p].root, default |-> loc[p].default, rels |-> rels]]
                  ELSE firstBoot
             /\ loc' = [loc EXCEPT ![p].rels = rels]
             /\ UNCHANGED firstMig
          \/ /\ OutputFails(p)
             /\ UNCHANGED <<firsts, loc>>
    /\ UNCHANGED <<workspaces, bindingMappings, inputs, runs, args, total>>

\* ------------------------------------------- migrate_users, migrate_users_for_groups
MigrateUsers(p) ==
    /\ pc[p] = "users"
    /\ \/ /\ OutputOk(p, "users", UsersRelationships(loc[p].tenant), "groups")
          /\ loc' = [loc EXCEPT ![p].created = 0, ![p].retried = 0, ![p].second = FALSE]
       \/ /\ OutputFails(p)
          /\ UNCHANGED loc
    /\ UNCHANGED <<workspaces, bindingMappings, inputs, runs, args, total, firsts>>

\* A group step that, finding no platform-default group anywhere, outputs the
\* explicit member edges only and goes on.
MigrateUsersForGroupsSkipsDefault(p) ==
    /\ pc[p] = "groups"
    /\ LET t == loc[p].tenant
       IN IF group_default(t, hasPublicDefault) = NoRow
          THEN OutputOk(p, "groups", ExplicitGroupRelationships(t, hasPublicDefault), "roles")
          ELSE \/ OutputOk(p, "groups",
                           ExplicitGroupRelationships(t, hasPublicDefault)
                             \o DefaultGroupRelationships(t, hasPublicDefault),
                           "roles")
               \/ OutputFails(p)
    /\ UNCHANGED <<workspaces, bindingMappings, inputs, runs, args, total, loc,
                   firsts>>

\* The lookup of the public tenant's platform-default group raises DoesNotExist
\* when the tenant has no group of its own and the public tenant has none.
MigrateUsersForGroups(p) ==
    /\ pc[p] = "groups"
    /\ LET t == loc[p].tenant
       IN IF group_default(t, hasPublicDefault) = NoRow
          THEN /\ HandleException(p, "DoesNotExist")
               /\ UNCHANGED <<store, log>>
          ELSE \/ OutputOk(p, "groups",
                           ExplicitGroupRelationships(t, hasPublicDefault)
                             \o DefaultGroupRelationships(t, hasPublicDefault),
                           "roles")
               \/ OutputFails(p)
    /\ UNCHANGED <<workspaces, bindingMappings, inputs, runs, args, total, loc,
                   firsts>>

\* ------------------------------------------------- migrate_data_for_tenant
\* An exclusion that leaves out only the roles all of whose accesses are excluded.
RoleExcludedAll(role, exclude_apps) ==
    \A i \in DOMAIN role.access : role.access[i].application \in exclude_apps

\* roles.exclude(access__permission__application__in=exclude_apps): a role is
\* left out when one of its accesses has an excluded application.
RoleExcluded(role, exclude_apps) ==
    \E i \in DOMAIN role.access : role.access[i].application \in exclude_apps

RolesToMigrate(t, exclude_apps) ==
    LET Kept(role) == ~RoleExcluded(role, exclude_apps)
    IN IF exclude_apps # {} THEN SelectSeq(role_set(t), Kept) ELSE role_set(t)

\* The roles queryset is evaluated when the for statement starts.
RolesQuery(p) ==
    /\ pc[p] = "roles"
    /\ loc' = [loc EXCEPT ![p].roles = RolesToMigrate(loc[p].tenant, args[p].exclude_apps)]
    /\ Goto(p, "role_loop")
    /\ UNCHANGED <<db, inputs, runs, args, total, log, firsts>>

\* The steps a call has completed for tenant t, in order.
TenantLog(p, t) ==
    LET OfTenant(e) == e.tenant = t
    IN SelectSeq(log[p], OfTenant)

\* for role in roles: the next role, or the tenant is finished: count += 1 and
\* the cursor moves on.
RoleLoop(p) ==
    /\ pc[p] = "role_loop"
    /\ IF loc[p].roles = <<>>
       THEN /\ pc' = [pc EXCEPT ![p] = "next_tenant"]
            /\ count' = [count EXCEPT ![p] = @ + 1]
            /\ queue' = [queue EXCEPT ![p] = Advance(@)]
            /\ log' = [log EXCEPT ![p] = Append(@, Event("tenant_done", p, <<>>))]
            /\ firstMig' =
                 IF firstMig[loc[p].tenant] = NoMig
                 THEN [firstMig EXCEPT ![loc[p].tenant] =
                         [run |-> args[p].run,
                          write_relationships |-> args[p].write_relationships,
                          exclude_apps |-> args[p].exclude_apps,
                          log |-> Append(TenantLog(p, loc[p].tenant),
                                         Event("tenant_done", p, <<>>))]]
                 ELSE firstMig
            /\ UNCHANGED <<loc, err>>
       ELSE /\ loc' = [loc EXCEPT ![p].role = Head(loc[p].roles),
                                  ![p].roles = Tail(loc[p].roles)]
            /\ Goto(p, "translate")
            /\ UNCHANGED <<log, firstMig>>
    /\ UNCHANGED <<db, inputs, runs, args, total, firstBoot>>

\* The current_bindings migrate_data_for_tenant gives migrate_role: it passes
\* none, so the parameter keeps its default, the empty list.
CurrentBindings(role) == {}

\* A migrate_data_for_tenant that hands migrate_role the DEFAULT workspace of
\* the first tenant that has one.
TranslateFirstDefault(p) ==
    /\ pc[p] = "translate"
    /\ LET defaults == {w \in workspaces : w.type = "default"}
           first == CHOOSE w \in defaults : \A v \in defaults : w.tenant <= v.tenant
       IN loc' = [loc EXCEPT ![p].mappings =
                    v1_role_to_v2_bindings(loc[p].role, first, CurrentBindings(loc[p].role)),
                             ![p].rels = <<>>]
    /\ log' = [log EXCEPT ![p] = Append(@, Event("translate", p, <<>>))]
    /\ Goto(p, "generate")
    /\ UNCHANGED <<db, inputs, runs, args, total, firsts>>

\* migrate_role, first statement: the translator.
Translate(p) ==
    /\ pc[p] = "translate"
    /\ loc' = [loc EXCEPT ![p].mappings =
                 v1_role_to_v2_bindings(loc[p].role, loc[p].default,
                                        CurrentBindings(loc[p].role)),
                          ![p].rels = <<>>]
    /\ log' = [log EXCEPT ![p] = Append(@, Event("translate", p, <<>>))]
    /\ Goto(p, "generate")
    /\ UNCHANGED <<db, inputs, runs, args, total, firsts>>

\* A migrate_role that persists the mappings without having output the tuples.
GenerateSkipsOutput(p) ==
    /\ pc[p] = "generate"
    /\ loc' = [loc EXCEPT ![p].rels =
                 get_kessel_relation_tuples(
                     [i \in DOMAIN loc[p].mappings |-> get_role_binding(loc[p].mappings[i])],
                     loc[p].default)]
    /\ log' = [log EXCEPT ![p] = Append(@, Event("generate", p, <<>>))]
    /\ Goto(p, "persist")
    /\ UNCHANGED <<db, inputs, runs, args, total, firsts>>

\* migrate_role, second statement: the tuple generator.
Generate(p) ==
    /\ pc[p] = "generate"
    /\ loc' = [loc EXCEPT ![p].rels =
                 get_kessel_relation_tuples(
                     [i \in DOMAIN loc[p].mappings |-> get_role_binding(loc[p].mappings[i])],
                     loc[p].default)]
    /\ log' = [log EXCEPT ![p] = Append(@, Event("generate", p, <<>>))]
    /\ Goto(p, "emit")
    /\ UNCHANGED <<db, inputs, runs, args, total, firsts>>

\* A migrate_role that notes the sink's failure and goes on to the persist.
EmitContinues(p) ==
    /\ pc[p] = "emit"
    /\ \/ OutputOk(p, "emit", loc[p].rels, "persist")
       \/ /\ args[p].write_relationships
          /\ err' = [err EXCEPT ![p] = [kind |-> "SinkError", tenant |-> loc[p].tenant,
                                         step |-> "emit"]]
          /\ pc' = [pc EXCEPT ![p] = "persist"]
          /\ UNCHANGED <<store, log, queue, count>>
    /\ UNCHANGED <<workspaces, bindingMappings, inputs, runs, args, total, loc,
                   firsts>>

\* A migrate_role inside a transaction of the whole run: when the sink fails the
\* rows the run inserted are rolled back.
EmitFailureRollsBack(p) ==
    /\ pc[p] = "emit"
    /\ \/ /\ OutputOk(p, "emit", loc[p].rels, "persist")
          /\ UNCHANGED bindingMappings
       \/ /\ args[p].write_relationships
          /\ HandleException(p, "SinkError")
          /\ bindingMappings' = {r \in bindingMappings : r.by # <<"run", args[p].run>>}
          /\ UNCHANGED <<store, log>>
    /\ UNCHANGED <<workspaces, inputs, runs, args, total, loc, firsts>>

\* migrate_role, third statement: the tuples are output.
Emit(p) ==
    /\ pc[p] = "emit"
    /\ \/ OutputOk(p, "emit", loc[p].rels, "persist")
       \/ OutputFails(p)
    /\ UNCHANGED <<workspaces, bindingMappings, inputs, runs, args, total, loc,
                   firsts>>

\* ----------------------------------------------------------- bulk_create
\* The key of the unique index on BindingMapping: the role and the resource scope.
MappingKey(m) == <<m.role, m.resource_type, m.resource_id>>

\* Whether inserting the objects meets a row that already holds one of their keys.
MappingConflict(rows, objs) ==
    \/ \E i \in DOMAIN objs : \E r \in rows : MappingKey(r) = MappingKey(objs[i])
    \/ \E i, j \in DOMAIN objs : i # j /\ MappingKey(objs[i]) = MappingKey(objs[j])

\* The rows a batch adds: each object with a fresh id and its writer.
InsertedRows(rows, objs, writer) ==
    {[id |-> Cardinality(rows) + i, role |-> objs[i].role,
      resource_type |-> objs[i].resource_type, resource_id |-> objs[i].resource_id,
      mappings |-> objs[i].mappings, by |-> writer] : i \in DOMAIN objs}

\* The table after bulk_create(objs, ignore_conflicts): one INSERT statement.
\* Without ignore_conflicts a conflict leaves the table as it was (and raises);
\* with it the conflicting objects are skipped.
bulk_create(rows, objs, ignore_conflicts, writer) ==
    IF ~MappingConflict(rows, objs) THEN rows \cup InsertedRows(rows, objs, writer)
    ELSE IF ~ignore_conflicts THEN rows
    ELSE rows \cup {n \in InsertedRows(rows, objs, writer) :
                      \A r \in rows : MappingKey(r) # MappingKey(n)}

\* Whether bulk_create raises IntegrityError.
bulk_create_raises(rows, objs, ignore_conflicts) ==
    MappingConflict(rows, objs) /\ ~ignore_conflicts

\* ignore_conflicts=True: conflicting rows are skipped silently.
IgnoreConflictsAlways(write_relationships) == TRUE

\* Conflicts are ignored on a dry run.
IgnoreConflictsDryRun(write_relationships) == ~write_relationships

\* The ignore_conflicts argument migrate_data_for_tenant passes.
IgnoreConflicts(write_relationships) == FALSE

\* A persist that overwrites the rows it conflicts with (an upsert).
PersistUpsert(p) ==
    /\ pc[p] = "persist"
    /\ LET objs == loc[p].mappings
           kept == {r \in bindingMappings :
                      \A i \in DOMAIN objs : MappingKey(r) # MappingKey(objs[i])}
       IN bindingMappings' = bulk_create(kept, objs, FALSE, <<"run", args[p].run>>)
    /\ log' = [log EXCEPT ![p] = Append(@, Event("persist", p, <<>>))]
    /\ Goto(p, "role_loop")
    /\ UNCHANGED <<workspaces, store, inputs, runs, args, total, loc, firsts>>

\* A persist that leaves the table alone on a dry run.
PersistDryRunSkips(p) ==
    /\ pc[p] = "persist"
    /\ LET ic == IgnoreConflicts(args[p].write_relationships)
       IN IF ~args[p].write_relationships
          THEN /\ UNCHANGED bindingMappings
               /\ log' = [log EXCEPT ![p] = Append(@, Event("persist", p, <<>>))]
               /\ Goto(p, "role_loop")
          ELSE IF bulk_create_raises(bindingMappings, loc[p].mappings, ic)
          THEN /\ HandleException(p, "IntegrityError")
               /\ UNCHANGED <<bindingMappings, log>>
          ELSE /\ bindingMappings' =
                    bulk_create(bindingMappings, loc[p].mappings, ic, <<"run", args[p].run>>)
               /\ log' = [log EXCEPT ![p] = Append(@, Event("persist", p, <<>>))]
               /\ Goto(p, "role_loop")
    /\ UNCHANGED <<workspaces, store, inputs, runs, args, total, loc, firsts>>

\* A persist that first deletes the rows the role already has.
PersistReplacesRole(p) ==
    /\ pc[p] = "persist"
    /\ LET kept == {r \in bindingMappings : r.role # loc[p].role.uuid}
       IN bindingMappings' = bulk_create(kept, loc[p].mappings, FALSE, <<"run", args[p].run>>)
    /\ log' = [log EXCEPT ![p] = Append(@, Event("persist", p, <<>>))]
    /\ Goto(p, "role_loop")
    /\ UNCHANGED <<workspaces, store, inputs, runs, args, total, loc, firsts>>

\* A persist that inserts the first mapping of the batch only.
PersistFirstOnly(p) ==
    /\ pc[p] = "persist"
    /\ LET ic == IgnoreConflicts(args[p].write_relationships)
       IN IF bulk_create_raises(bindingMappings, loc[p].mappings, ic)
          THEN /\ HandleException(p, "IntegrityError")
               /\ UNCHANGED <<bindingMappings, log>>
          ELSE /\ bindingMappings' =
                    bulk_create(bindingMappings, SubSeq(loc[p].mappings, 1, 1), ic,
                                <<"run", args[p].run>>)
               /\ log' = [log EXCEPT ![p] = Append(@, Event("persist", p, <<>>))]
               /\ Goto(p, "role_loop")
    /\ UNCHANGED <<workspaces, store, inputs, runs, args, total, loc, firsts>>

\* A persist that saves the mappings one by one: those before the first
\* conflicting one stay inserted when it raises.
PersistRowByRow(p) ==
    /\ pc[p] = "persist"
    /\ LET objs == loc[p].mappings
           Clash(i) == MappingConflict(bindingMappings, SubSeq(objs, 1, i))
           before == {i \in DOMAIN objs : ~Clash(i)}
       IN IF \E i \in DOMAIN objs : Clash(i)
          THEN /\ bindingMappings' =
                    bulk_create(bindingMappings, SubSeq(objs, 1, Cardinality(before)), FALSE,
                                <<"run", args[p].run>>)
               /\ HandleException(p, "IntegrityError")
               /\ UNCHANGED log
          ELSE /\ bindingMappings' =
                    bulk_create(bindingMappings, objs, FALSE, <<"run", args[p].run>>)
               /\ log' = [log EXCEPT ![p] = Append(@, Event("persist", p, <<>>))]
               /\ Goto(p, "role_loop")
    /\ UNCHANGED <<workspaces, store, inputs, runs, args, total, loc, firsts>>

\* BindingMapping.objects.bulk_create(mappings, ignore_conflicts=False)
Persist(p) ==
    /\ pc[p] = "persist"
    /\ LET ic == IgnoreConflicts(args[p].write_relationships)
       IN IF bulk_create_raises(bindingMappings, loc[p].mappings, ic)
          THEN /\ HandleException(p, "IntegrityError")
               /\ UNCHANGED <<bindingMappings, log>>
          ELSE /\ bindingMappings' =
                    bulk_create(bindingMappings, loc[p].mappings, ic, <<"run", args[p].run>>)
               /\ log' = [log EXCEPT ![p] = Append(@, Event("persist", p, <<>>))]
               /\ Goto(p, "role_loop")
    /\ UNCHANGED <<workspaces, store, inputs, runs, args, total, loc, firsts>>

\* ------------------------------------------------------------ specification
\* The statements of one call of migrate_data.
Body(p) ==
    \/ NextTenant(p)
    \/ WsRootGet(p)
    \/ WsRootCreate(p)
    \/ WsDefaultGet(p)
    \/ WsDefaultCreate(p)
    \/ WsEmit(p)
    \/ MigrateUsers(p)
    \/ MigrateUsersForGroups(p)
    \/ RolesQuery(p)
    \/ RoleLoop(p)
    \/ Translate(p)
    \/ Generate(p)
    \/ Emit(p)
    \/ Persist(p)

\* One invocation at a time: migrate_data is called again only after it returned
\* or raised.
Next == StartRun(1) \/ Body(1)

Spec == Init /\ [][Next]_vars

\* ------------------------------------------------------ concurrent writers
\* Whether a call of migrate_data is inside migrate_data_for_tenant for tenant t.
Migrating(p, t) == pc[p] \notin {"idle", "next_tenant", "done", "failed"} /\ loc[p].tenant = t

\* The live dual-writer records one (role, scope) mapping of a role of a tenant
\* that is bootstrapped and being migrated; it inserts only where no row holds
\* the key.  The number of rows it writes is bounded.
DualWrite ==
    /\ Cardinality({r \in bindingMappings : r.by = <<"dual", 0>>}) < MaxDualWrites
    /\ \E role \in AllRoles :
         /\ \E p \in Procs : Migrating(p, role.tenant)
         /\ \E ws \in {w \in workspaces : w.tenant = role.tenant /\ w.type = "default"} :
              LET objs == v1_role_to_v2_bindings(role, ws, {})
              IN \E i \in DOMAIN objs :
                   /\ ~MappingConflict(bindingMappings, <<objs[i]>>)
                   /\ bindingMappings' =
                        bulk_create(bindingMappings, <<objs[i]>>, FALSE, <<"dual", 0>>)
    /\ UNCHANGED <<workspaces, store, inputs, runs, pc, args, queue, count, total,
                   loc, log, err, firsts>>

\* The allow-lists of two calls that meet on one tenant: the same single
\* organization for both.
ConcurrentOrgs(p) ==
    LET given == {args[q].orgs : q \in {r \in Procs : r # p /\ pc[r] # "idle"}}
    IN IF given = {} THEN {{org_id(t)} : t \in Tenants} ELSE given

\* The second of two calls of migrate_data that run at the same time.
StartConcurrent(p) ==
    /\ pc[p] = "idle"
    /\ Call(p, ConcurrentOrgs(p), {{}})

InitConcurrent == Init /\ hasPublicDefault /\ tenantRows = AllTenants

\* The positions whose statement reads and writes only the call's own
\* variables: such a step commutes with every step of another call.
LocalPcs == {"next_tenant", "roles", "role_loop", "translate", "generate"}

\* Interleavings are explored at the statements that reach the database or the
\* tuple store: a call at a local statement runs it before any other call moves.
Scheduled(p) == pc[p] \in LocalPcs \/ \A q \in Procs : pc[q] \notin LocalPcs

\* Two invocations of migrate_data and the dual-writer, interleaved.
NextConcurrent ==
    \/ \E p \in Procs : Scheduled(p) /\ (StartConcurrent(p) \/ Body(p))
    \/ DualWrite

SpecConcurrent == InitConcurrent /\ [][NextConcurrent]_vars

\* ------------------------------------------------ the tuple generator alone
\* The workspace rows of tenant 1 as migrate_workspace leaves them.
BootstrappedRoot == NewRow({}, RootKwargs(1))
BootstrappedDefault == NewRow({BootstrappedRoot}, DefaultKwargs(1, BootstrappedRoot))

\* The resources a binding is given: the default workspace, the ROOT workspace,
\* another workspace, and a resource that is not a workspace (whose id is the
\* default workspace's).
BindingResources ==
    { [resource_type |-> <<"rbac", "workspace">>, resource_id |-> str(BootstrappedDefault.uuid)],
      [resource_type |-> <<"rbac", "workspace">>, resource_id |-> str(BootstrappedRoot.uuid)],
      [resource_type |-> <<"rbac", "workspace">>, resource_id |-> OtherWorkspace(1)],
      [resource_type |-> <<"inventory", "host">>, resource_id |-> str(BootstrappedDefault.uuid)] }

\* The lists of at most MaxBindings mappings of role 1 of tenant 1 over these
\* resources; the i-th mapping holds the i-th binding.
BindingLists ==
    UNION {[1..n -> BindingResources] : n \in 0..MaxBindings}
MappingsOver(resources) ==
    [i \in DOMAIN resources |->
       [role |-> <<"ro", 1, 1>>,
        resource_type |-> resources[i].resource_type,
        resource_id |-> resources[i].resource_id,
        mappings |-> [id |-> <<"str", "bd", i>>, role |-> <<"ro", 1, 1>>,
                      groups |-> SubjectGroups([tenant |-> 1])]]]

\* migrate_role is about to generate the tuples of a list of bindings.
InitTuples ==
    /\ workspaces = {BootstrappedRoot, BootstrappedDefault}
    /\ bindingMappings = {}
    /\ store = {}
    /\ hasPublicDefault = TRUE
    /\ tenantRows = AllTenants
    /\ runs = 1
    /\ pc = [p \in Procs |-> IF p = 1 THEN "generate" ELSE "idle"]
    /\ args = [p \in Procs |-> IF p = 1 THEN [InitArgs EXCEPT !.run = 1] ELSE InitArgs]
    /\ queue = [p \in Procs |-> IF p = 1 THEN SetToSeq(Tenants) ELSE <<>>]
    /\ count = [p \in Procs |-> 0]
    /\ total = [p \in Procs |-> IF p = 1 THEN NumTenants ELSE 0]
    /\ \E resources \in BindingLists :
         loc = [p \in Procs |->
                  IF p = 1
                  THEN [InitLoc EXCEPT !.tenant = 1, !.root = BootstrappedRoot,
                                       !.default = BootstrappedDefault,
                                       !.role = role_set(1)[1],
                                       !.mappings = MappingsOver(resources)]
                  ELSE InitLoc]
    /\ log = [p \in Procs |-> <<>>]
    /\ err = [p \in Procs |-> NoError]
    /\ firstBoot = [t \in TenantIds |-> NoBoot]
    /\ firstMig = [t \in TenantIds |-> NoMig]
    /\ proxyCall = NoCall

NextTuples == Generate(1)

SpecTuples == InitTuples /\ [][NextTuples]_vars

\* ------------------------------------------------------ the principal proxy
\* Python's None, and dict.get(key).
None == <<"none">>
get(item, key) == IF key \in DOMAIN item THEN item[key] ELSE None

\* A parameter that the params dict does not hold.
NoParam == 0 - 1

\* The Principal table, and a principal's username.
PrincipalTable == Flatten([t \in 1..NumTenants |-> principal_set(t)])
username(principal) == <<"str", "user", principal.uuid[2], principal.uuid[3]>>

\* Principal.objects.filter(type="user", tenant__org_id=org_id, cross_account=False)
LocalUsers(org) ==
    LET Kept(principal) == /\ principal.type = "user"
                           /\ org_id(principal.tenant) = org
                           /\ ~principal.cross_account
    IN SelectSeq(PrincipalTable, Kept)

\* The keys _call_item copies from an item of the service's answer.
CopiedKeys == {"username", "email", "first_name", "last_name", "is_active", "is_org_admin"}

\* _call_item(item, return_id)
_call_item(item, return_id) ==
    [k \in CopiedKeys \cup {"external_source_id", "org_id"}
           \cup (IF return_id THEN {"user_id"} ELSE {}) |->
       IF k \in CopiedKeys THEN get(item, k)
       ELSE IF k = "org_id" THEN get(item, "org_id")
       ELSE get(item, "id")]

RECURSIVE _process_dataKeepsAll(_, _, _, _)
\* A _process_data that does not look at org_id_filter.
_process_dataKeepsAll(data, org, org_id_filter, return_id) ==
    IF data = <<>> THEN <<>>
    ELSE <<_call_item(Head(data), return_id)>>
         \o _process_dataKeepsAll(Tail(data), org, org_id_filter, return_id)

RECURSIVE _process_data(_, _, _, _)
\* _process_data(data, org_id, org_id_filter, return_id)
_process_data(data, org, org_id_filter, return_id) ==
    IF data = <<>> THEN <<>>
    ELSE LET item == Head(data)
         IN (IF org_id_filter
             THEN IF org = get(item, "org_id")
                  THEN <<_call_item(item, return_id)>>
                  ELSE <<>>
             ELSE <<_call_item(item, return_id)>>)
            \o _process_data(Tail(data), org, org_id_filter, return_id)

\* s[a:b] for a and b that are not negative.
Slice(s, a, b) == SubSeq(s, a + 1, IF b < Len(s) THEN b ELSE Len(s))

\* The username_only answer with the page cut at index limit instead of
\* offset + limit.
username_only_responseCutAtLimit(org, params, data) ==
    LET principals == LocalUsers(org)
        Named(principal) == \E i \in DOMAIN data.users : data.users[i] = username(principal)
        filtered == IF data.kind = "users" THEN SelectSeq(principals, Named) ELSE principals
        userList == [i \in DOMAIN filtered |-> [username |-> username(filtered[i])]]
        offset == IF params.offset = NoParam THEN 0 ELSE params.offset
        limit == IF params.limit = NoParam THEN Len(userList) ELSE params.limit
    IN [data |-> Slice(userList, offset, limit),
        userCount |-> Len(userList), status_code |-> 200]

\* _request_principals, username_only == "true": the answer comes from the
\* Principal table.
username_only_response(org, params, data) ==
    LET principals == LocalUsers(org)
        Named(principal) == \E i \in DOMAIN data.users : data.users[i] = username(principal)
        filtered == IF data.kind = "users" THEN SelectSeq(principals, Named) ELSE principals
        userList == [i \in DOMAIN filtered |-> [username |-> username(filtered[i])]]
        offset == IF params.offset = NoParam THEN 0 ELSE params.offset
        limit == IF params.limit = NoParam THEN Len(userList) ELSE params.limit
    IN [data |-> Slice(userList, offset, offset + limit),
        userCount |-> Len(userList), status_code |-> 200]

\* _request_principals, settings.BYPASS_BOP_VERIFICATION: a made-up answer.
bypass_response(org, data) ==
    LET principals == LocalUsers(org)
        to_return ==
          IF data.kind = "none"
          THEN [i \in DOMAIN principals |->
                  [username |-> username(principals[i]), first_name |-> <<"str", "foo">>,
                   last_name |-> <<"str", "bar">>, email |-> <<"str", "baz">>,
                   user_id |-> <<"str", "51736777">>, type |-> <<"str", principals[i].type>>]]
          ELSE IF data.kind = "users"
          THEN [i \in DOMAIN data.users |->
                  [username |-> data.users[i], first_name |-> <<"str", "foo">>,
                   last_name |-> <<"str", "bar">>, email |-> <<"str", "baz">>,
                   user_id |-> data.users[i], type |-> <<"str", "user">>]]
          ELSE <<>>
    IN [data |-> to_return, status_code |-> 200, userCount |-> Len(to_return)]

unexpected_error == [detail |-> "Unexpected error.", status |-> "500", source |-> "principals"]

\* _request_principals, the request to the service and the handling of what
\* comes back: a connection error, or a response with a status and a body.
service_response(org, org_id_filter, return_id, outcome) ==
    IF outcome.kind = "ConnectionError"
    THEN [status_code |-> 500, errors |-> <<unexpected_error>>]
    ELSE IF outcome.status_code = 200
    THEN CASE outcome.body = "invalid" ->
                [status_code |-> 500, errors |-> <<unexpected_error>>]
           [] outcome.body = "dict" ->
                [status_code |-> 200,
                 data |-> [userCount |-> outcome.userCount,
                           users |-> _process_data(outcome.users, org, org_id_filter, return_id)]]
           [] outcome.body = "dict_without_users" ->
                [raised |-> "TypeError"]
           [] OTHER ->
                [status_code |-> 200,
                 data |-> _process_data(outcome.users, org, org_id_filter, return_id)]
    ELSE IF outcome.status_code = 404
    THEN [status_code |-> 404,
          errors |-> << [detail |-> "Not Found.", status |-> "404", source |-> "principals"] >>]
    ELSE [status_code |-> outcome.status_code,
          errors |-> << [unexpected_error EXCEPT !.status = ToString(outcome.status_code)] >>]

\* _request_principals(url, org_id, org_id_filter, method, params, data, return_id)
\* under a BYPASS_BOP_VERIFICATION setting and an outcome of the request.
_request_principals(org, org_id_filter, params, data, return_id, bypass, outcome) ==
    IF params.present /\ params.username_only = "true"
    THEN [contacted |-> FALSE, resp |-> username_only_response(org, params, data)]
    ELSE IF bypass
    THEN [contacted |-> FALSE, resp |-> bypass_response(org, data)]
    ELSE [contacted |-> TRUE, resp |-> service_response(org, org_id_filter, return_id, outcome)]

\* The organizations asked for, and the items of the service's answers: a user
\* of one of them, or an item without org_id.
ProxyOrgs == {org_id(1), org_id(NumTenants)}
Item(u, org) ==
    [k \in CopiedKeys \cup {"id"} \cup (IF org = None THEN {} ELSE {"org_id"}) |->
       IF k = "org_id" THEN org ELSE IF k = "id" THEN <<"id", u>> ELSE <<"str", k, u>>]
Items == {Item(u, org) : u \in 1..2, org \in ProxyOrgs \cup {None}}
ItemLists == UNION {[1..n -> Items] : n \in 0..MaxItems}

\* The request bodies: none, a list of usernames, an e-mail address.
DataChoices ==
    LET name(t, i) == username(principal_set(t)[i])
    IN {[kind |-> "none", users |-> <<>>], [kind |-> "primaryEmail", users |-> <<>>]}
       \cup {[kind |-> "users", users |-> us] :
               us \in {<<>>, <<name(1, 1)>>, <<name(1, 1), name(1, 2)>>,
                       <<name(1, 3), name(NumTenants, 1)>>,
                       <<name(NumTenants, 3), name(NumTenants, 4)>>}}

\* The outcomes of the request: no connection, a status that is not 200, and
\* 200 with a body that is not JSON, a dict, a dict without users, or a list.
Outcomes ==
    {[kind |-> "ConnectionError", status_code |-> 0, body |-> "none", users |-> <<>>,
      userCount |-> 0]}
    \cup {[kind |-> "response", status_code |-> c, body |-> "none", users |-> <<>>,
           userCount |-> 0] : c \in {404, 403, 500}}
    \cup {[kind |-> "response", status_code |-> 200, body |-> b, users |-> <<>>,
           userCount |-> 0] : b \in {"invalid", "dict_without_users"}}
    \cup {[kind |-> "response", status_code |-> 200, body |-> b, users |-> us,
           userCount |-> Len(us) + 1] : b \in {"dict", "list"}, us \in ItemLists}

\* The params dicts: none, and one with or without username_only, offset, limit.
PageChoices == {NoParam} \cup 0..MaxPage
NoParams == [present |-> FALSE, username_only |-> "absent", offset |-> NoParam, limit |-> NoParam]

\* The calls of _process_data.
ProcessCalls ==
    [call : {"_process_data"}, done : {FALSE},
     data : ItemLists, org_id : {org_id(1), None}, org_id_filter : BOOLEAN,
     return_id : BOOLEAN]

\* The calls of _request_principals: those with username_only == "true", over
\* every page and request body, and the others, over every outcome.
RequestCalls ==
    [call : {"_request_principals"}, done : {FALSE},
     org_id : ProxyOrgs, org_id_filter : BOOLEAN, return_id : {FALSE},
     params : [present : {TRUE}, username_only : {"true"}, offset : PageChoices,
               limit : PageChoices],
     data : DataChoices, bypass : BOOLEAN,
     outcome : {o \in Outcomes : o.kind = "ConnectionError" \/ o.status_code = 404}]
    \cup
    [call : {"_request_principals"}, done : {FALSE},
     org_id : ProxyOrgs, org_id_filter : BOOLEAN, return_id : BOOLEAN,
     params : {NoParams} \cup [present : {TRUE}, username_only : {"false", "absent"},
                               offset : {NoParam}, limit : {NoParam}],
     data : {d \in DataChoices : Len(d.users) <= 1}, bypass : BOOLEAN,
     outcome : Outcomes]

\* A call of the proxy is about to be made, against the populated deployment.
InitProxy ==
    /\ InitMigration
    /\ hasPublicDefault
    /\ tenantRows = AllTenants
    /\ proxyCall \in ProcessCalls \cup RequestCalls

ProcessData ==
    /\ proxyCall.call = "_process_data"
    /\ ~proxyCall.done
    /\ proxyCall' = [call |-> proxyCall.call, done |-> TRUE, input |-> proxyCall,
                     result |-> _process_data(proxyCall.data, proxyCall.org_id,
                                              proxyCall.org_id_filter, proxyCall.return_id)]
    /\ UNCHANGED <<db, hasPublicDefault, tenantRows, runs, pc, args, queue, count, total,
                   loc, log, err, firsts>>

RequestPrincipals ==
    /\ proxyCall.call = "_request_principals"
    /\ ~proxyCall.done
    /\ LET returned == _request_principals(proxyCall.org_id, proxyCall.org_id_filter,
                                           proxyCall.params, proxyCall.data,
                                           proxyCall.return_id, proxyCall.bypass,
                                           proxyCall.outcome)
       IN proxyCall' = [call |-> proxyCall.call, done |-> TRUE, input |-> proxyCall,
                        contacted |-> returned.contacted, result |-> returned.resp]
    /\ UNCHANGED <<db, hasPublicDefault, tenantRows, runs, pc, args, queue, count, total,
                   loc, log, err, firsts>>

NextProxy == ProcessData \/ RequestPrincipals

SpecProxy == InitProxy /\ [][NextProxy]_vars

\* ================================================================ properties
\* Helpers of the properties below.
WsPcs == {"ws_root", "ws_root_create", "ws_default", "ws_default_create"}
LogTenants(p) == {log[p][i].tenant : i \in DOMAIN log[p]}
LaterTenants(p) == {queue[p][i] : i \in 2..Len(queue[p])}
LaterUntouched(p) ==
    /\ LogTenants(p) \cap LaterTenants(p) = {}
    /\ loc[p].tenant \notin LaterTenants(p)
StepsOf(p, step) == {i \in DOMAIN log[p] : log[p][i].step = step}
RootsOf(t) == {w \in workspaces : w.tenant = t /\ w.type = "root"}
DefaultsOf(t) == {w \in workspaces : w.tenant = t /\ w.type = "default"}
WellFormed(t) ==
    /\ Cardinality(RootsOf(t)) = 1
    /\ Cardinality(DefaultsOf(t)) = 1
    /\ \A r \in RootsOf(t) : r.parent = NoUuid
    /\ \A d \in DefaultsOf(t) : \A r \in RootsOf(t) : d.parent = r.uuid
PersistMeetsConflict(p) ==
    /\ pc[p] = "persist"
    /\ pc'[p] # "persist"
    /\ \E i \in DOMAIN loc[p].mappings : \E r \in bindingMappings :
         /\ r.role = loc[p].mappings[i].role
         /\ r.resource_type = loc[p].mappings[i].resource_type
         /\ r.resource_id = loc[p].mappings[i].resource_id
SameCall(p) == args'[p].run = args[p].run

\* C1: when persisting a role's mappings meets a row that already exists for
\* the role and scope, the call of migrate_data is left with the conflict error,
\* at the failing tenant, and from then on the call takes no step: no tenant
\* after the failing one has a workspace bootstrapped, a tuple output or a
\* mapping persisted.
C1_ConflictAbortsRun ==
    [][\A p \in Procs :
         /\ PersistMeetsConflict(p) =>
              /\ pc'[p] = "failed"
              /\ err'[p].kind = "IntegrityError"
              /\ err'[p].tenant = Head(queue[p])
              /\ queue'[p] = queue[p]
              /\ bindingMappings' = bindingMappings
              /\ LaterUntouched(p)'
         /\ (pc[p] = "failed" /\ SameCall(p)) =>
              /\ UNCHANGED <<pc[p], queue[p], count[p], loc[p], log[p], err[p]>>
              /\ UNCHANGED db
       ]_vars

C1_Witness ==
    \E p \in Procs :
      /\ pc[p] = "failed"
      /\ err[p].kind = "IntegrityError"
      /\ err[p].step = "persist"
      /\ LaterTenants(p) # {}

\* C2: a role whose mappings an earlier migration persisted cannot be persisted
\* again: the persist of the later migration raises the conflict error whatever
\* write_relationships is, also on a dry run.
C2_ConflictWhateverWriteFlag ==
    [][\A p \in Procs : \A w \in BOOLEAN :
         ( /\ pc[p] = "persist"
           /\ pc'[p] # "persist"
           /\ args[p].write_relationships = w
           /\ \E r \in bindingMappings : r.role = loc[p].role.uuid /\ r.by[1] = "run" )
         => (pc'[p] = "failed" /\ err'[p].kind = "IntegrityError" /\ err'[p].step = "persist")
       ]_vars

C2_Witness ==
    \E p \in Procs :
      /\ pc[p] = "failed"
      /\ err[p].step = "persist"
      /\ ~args[p].write_relationships
      /\ \E r \in bindingMappings :
           r.role = loc[p].role.uuid /\ r.by[1] = "run" /\ r.by # <<"run", args[p].run>>

\* C3: a call in which migrating a tenant raised, whatever the exception, has
\* stopped at that tenant: the tenant is still at the head of the cursor and was
\* not counted as completed, and no later tenant has any step in the log.
C3_ExceptionHalts ==
    \A p \in Procs :
      err[p] # NoError =>
        /\ pc[p] = "failed"
        /\ queue[p] # <<>>
        /\ Head(queue[p]) = err[p].tenant
        /\ loc[p].tenant = err[p].tenant
        /\ \A i \in StepsOf(p, "tenant_done") : log[p][i].tenant # err[p].tenant
        /\ count[p] = Cardinality(StepsOf(p, "tenant_done"))
        /\ LaterUntouched(p)

C3_Witness ==
    \E p \in Procs :
      /\ pc[p] = "failed"
      /\ err[p].kind \in {"SinkError", "DoesNotExist"}
      /\ LaterTenants(p) # {}
      /\ count[p] = 0

\* C4: when two calls of migrate_data, or a call and the dual-writer,
\* interleave on one role, no (role, scope) ever has two BindingMapping rows, no
\* row once inserted is changed or removed, and a call whose persist meets a
\* row that is already there fails with the conflict error and inserts nothing.
C4_OneWriterPerScope ==
    [][/\ \A r1, r2 \in bindingMappings' :
            ( /\ r1.role = r2.role
              /\ r1.resource_type = r2.resource_type
              /\ r1.resource_id = r2.resource_id ) => r1 = r2
       /\ bindingMappings \subseteq bindingMappings'
       /\ \A p \in Procs :
            PersistMeetsConflict(p) =>
              /\ pc'[p] = "failed"
              /\ err'[p].kind = "IntegrityError"
              /\ bindingMappings' = bindingMappings
      ]_vars

C4_Witness ==
    \E p \in Procs :
      /\ pc[p] = "failed"
      /\ err[p].step = "persist"
      /\ \E q \in Procs \ {p} : \E r \in bindingMappings :
           /\ r.role = loc[p].role.uuid
           /\ r.by = <<"run", args[q].run>>

\* C5: a call of migrate_workspace for a tenant for which an earlier call has
\* returned does not fail in its get-or-create steps, creates no row, returns
\* the two rows the first call returned and outputs the three tuples the first
\* call output; the tenant then has exactly one ROOT and one DEFAULT row.
C5_BootstrapIdempotent ==
    \A p \in Procs :
      loc[p].second =>
        /\ loc[p].created = 0
        /\ err[p].step \notin WsPcs
        /\ pc[p] = "users" =>
             /\ loc[p].root = firstBoot[loc[p].tenant].root
             /\ loc[p].default = firstBoot[loc[p].tenant].default
             /\ log[p][Len(log[p])].step = "workspace"
             /\ log[p][Len(log[p])].rels = firstBoot[loc[p].tenant].rels
             /\ Len(log[p][Len(log[p])].rels) = 3
             /\ RootsOf(loc[p].tenant) = {loc[p].root}
             /\ DefaultsOf(loc[p].tenant) = {loc[p].default}

C5_Witness ==
    \E p \in Procs : pc[p] = "users" /\ loc[p].second

\* C6: a tenant for which migrate_workspace has returned, or which has a
\* DEFAULT workspace, has exactly one ROOT workspace, without a parent, and
\* exactly one DEFAULT workspace, whose parent is that ROOT; between calls of
\* migrate_data (returned or aborted) this holds of every tenant that has any
\* workspace row.
C6_OneRootOneDefault ==
    \A t \in Tenants :
      ( \/ firstBoot[t] # NoBoot
        \/ DefaultsOf(t) # {}
        \/ /\ \A p \in Procs : pc[p] \in {"idle", "done", "failed"}
           /\ \E w \in workspaces : w.tenant = t )
      => WellFormed(t)

C6_Witness ==
    /\ pc[1] = "failed"
    /\ args[1].run = 2
    /\ \E t \in Tenants : firstBoot[t] # NoBoot /\ t # loc[1].tenant

\* C7: with two calls bootstrapping one tenant at the same time, no get-or-create
\* step raises, no tenant ever has two ROOT or two DEFAULT rows, and a call that
\* has got its DEFAULT workspace holds the tenant's only ROOT and only DEFAULT.
C7_ConcurrentBootstrap ==
    /\ \A p \in Procs : err[p].step \notin WsPcs
    /\ \A t \in Tenants : Cardinality(RootsOf(t)) <= 1 /\ Cardinality(DefaultsOf(t)) <= 1
    /\ \A p \in Procs :
         loc[p].default # NoRow =>
           /\ RootsOf(loc[p].tenant) = {loc[p].root}
           /\ DefaultsOf(loc[p].tenant) = {loc[p].default}
           /\ WellFormed(loc[p].tenant)

C7_Witness ==
    \E p \in Procs : \E q \in Procs \ {p} :
      /\ loc[p].tenant = loc[q].tenant
      /\ loc[p].retried > 0
      /\ pc[p] = "users"
      /\ pc[q] = "users"

\* C8: the batch migrate_workspace outputs for tenant T is exactly: the DEFAULT
\* workspace of T parent the ROOT workspace of T; the ROOT workspace parent
\* tenant T (by org id); tenant T platform the environment name; and the call
\* returns the ROOT and the DEFAULT workspace row of T.
C8_BootstrapTuples ==
    \A p \in Procs :
      /\ \A i \in StepsOf(p, "workspace") :
           LET t == log[p][i].tenant
               root == CHOOSE w \in RootsOf(t) : TRUE
               default == CHOOSE w \in DefaultsOf(t) : TRUE
           IN log[p][i].rels =
                << [resource_type |-> <<"rbac", "workspace">>,
                    resource_id |-> <<"str">> \o default.uuid,
                    relation |-> "parent",
                    subject_type |-> <<"rbac", "workspace">>,
                    subject_id |-> <<"str">> \o root.uuid],
                   [resource_type |-> <<"rbac", "workspace">>,
                    resource_id |-> <<"str">> \o root.uuid,
                    relation |-> "parent",
                    subject_type |-> <<"rbac", "tenant">>,
                    subject_id |-> <<"str", "org", t>>],
                   [resource_type |-> <<"rbac", "tenant">>,
                    resource_id |-> <<"str", "org", t>>,
                    relation |-> "platform",
                    subject_type |-> <<"rbac", "platform">>,
                    subject_id |-> ENV_NAME] >>
      /\ pc[p] = "users" =>
           /\ loc[p].root \in RootsOf(loc[p].tenant)
           /\ loc[p].default \in DefaultsOf(loc[p].tenant)

C8_Witness ==
    \E p \in Procs : pc[p] = "users" /\ StepsOf(p, "workspace") # {}

\* C9: the steps a call completes for a tenant come in the order workspace
\* bootstrap, tenant-user edges, group-membership edges, then role by role
\* translate, generate, emit, persist; a role is translated only after the role
\* before it was persisted.
C9_StepOrder ==
    \A p \in Procs :
      /\ log[p] # <<>> => log[p][1].step = "workspace"
      /\ \A i \in 1..(Len(log[p]) - 1) :
           LET a == log[p][i]
               b == log[p][i + 1]
           IN /\ a.step = "workspace" => b.step = "users" /\ b.tenant = a.tenant
              /\ a.step = "users" => b.step = "groups" /\ b.tenant = a.tenant
              /\ a.step = "groups" =>
                   b.step \in {"translate", "tenant_done"} /\ b.tenant = a.tenant
              /\ a.step = "translate" =>
                   b.step = "generate" /\ b.tenant = a.tenant /\ b.role = a.role
              /\ a.step = "generate" =>
                   b.step = "emit" /\ b.tenant = a.tenant /\ b.role = a.role
              /\ a.step = "emit" =>
                   b.step = "persist" /\ b.tenant = a.tenant /\ b.role = a.role
              /\ a.step = "persist" =>
                   /\ b.tenant = a.tenant
                   /\ \/ b.step = "tenant_done"
                      \/ b.step = "translate" /\ b.role # a.role
              /\ a.step = "tenant_done" => b.step = "workspace" /\ b.tenant # a.tenant

C9_Witness ==
    \E p \in Procs :
      /\ Cardinality(StepsOf(p, "persist")) >= 2
      /\ StepsOf(p, "tenant_done") # {}

\* C10: in the log of a call the steps of a tenant are contiguous, a tenant is
\* bootstrapped at most once, and the steps of the next tenant start only after
\* the tenant before it was finished, all its roles to migrate persisted.
C10_TenantsSequential ==
    \A p \in Procs :
      /\ \A i, k \in DOMAIN log[p] :
           (i < k /\ log[p][i].tenant = log[p][k].tenant) =>
             \A j \in i..k : log[p][j].tenant = log[p][i].tenant
      /\ \A i, k \in StepsOf(p, "workspace") :
           log[p][i].tenant = log[p][k].tenant => i = k
      /\ \A i \in 1..(Len(log[p]) - 1) :
           log[p][i + 1].tenant # log[p][i].tenant =>
             /\ log[p][i].step = "tenant_done"
             /\ \A r \in DOMAIN role_set(log[p][i].tenant) :
                  LET role == role_set(log[p][i].tenant)[r]
                  IN (\A a \in DOMAIN role.access :
                        role.access[a].application \notin args[p].exclude_apps)
                     => \E j \in StepsOf(p, "persist") :
                          j < i /\ log[p][j].role = role.uuid
      /\ pc[p] \notin {"idle", "next_tenant", "done"} =>
           /\ queue[p] # <<>>
           /\ loc[p].tenant = Head(queue[p])
           /\ \A i \in StepsOf(p, "tenant_done") : log[p][i].tenant # loc[p].tenant

C10_Witness ==
    \E p \in Procs :
      /\ Cardinality(StepsOf(p, "tenant_done")) >= 2
      /\ StepsOf(p, "persist") # {}

\* C11: whatever the arguments, also with the public tenant's organization id
\* in the allow-list, the public tenant is never migrated: the cursor never
\* yields it, no call is ever inside it or has a step for it, it has no
\* workspace row, no mapping row is persisted for a role of it, and no tuple
\* output or stored names its organization.
C11_PublicNeverMigrated ==
    /\ \A w \in workspaces : w.tenant # PublicTenant
    /\ \A r \in bindingMappings : r.role[2] # PublicTenant
    /\ \A r \in store :
         r.resource_id # org_id(PublicTenant) /\ r.subject_id # org_id(PublicTenant)
    /\ \A p \in Procs :
         /\ \A i \in DOMAIN queue[p] : queue[p][i] # PublicTenant
         /\ loc[p].tenant # PublicTenant
         /\ \A i \in DOMAIN log[p] :
              /\ log[p][i].tenant # PublicTenant
              /\ \A k \in DOMAIN log[p][i].rels :
                   /\ log[p][i].rels[k].resource_id # org_id(PublicTenant)
                   /\ log[p][i].rels[k].subject_id # org_id(PublicTenant)

C11_Witness ==
    \E p \in Procs :
      /\ pc[p] = "done"
      /\ org_id(PublicTenant) \in args[p].orgs
      /\ count[p] >= 1
      /\ args[p].write_relationships

\* C12: a call given a non-empty allow-list migrates exactly the tenants, other
\* than the public one, whose organization id is in the list, and a call given
\* an empty one migrates every tenant other than the public one: total is their
\* number, the tenants finished and the tenants still in the cursor are together
\* exactly these, and a call that returned has finished each of them.
C12_AllowList ==
    \A p \in Procs :
      pc[p] # "idle" =>
        LET listed == {t \in tenantRows \ {PublicTenant} : org_id(t) \in args[p].orgs}
            wanted == IF args[p].orgs # {} THEN listed ELSE tenantRows \ {PublicTenant}
            finished == {log[p][i].tenant : i \in StepsOf(p, "tenant_done")}
        IN /\ total[p] = Cardinality(wanted)
           /\ LogTenants(p) \subseteq wanted
           /\ finished \cup {queue[p][i] : i \in DOMAIN queue[p]} = wanted
           /\ pc[p] = "done" => (finished = wanted /\ count[p] = Cardinality(wanted))

C12_Witness ==
    \E p \in Procs :
      /\ pc[p] = "done"
      /\ args[p].orgs # {}
      /\ count[p] = 1
      /\ Cardinality(tenantRows \ {PublicTenant}) > 1

\* C13: the roles of a tenant a call migrates (translates, emits, persists the
\* mappings of) are, when exclude_apps is not empty, exactly the roles none of
\* whose Access entries has a permission of an excluded application, and every
\* role of the tenant when exclude_apps is empty: no other role has a step, and
\* a finished tenant has each of the three steps for each of these roles.
C13_ExcludeApps ==
    \A p \in Procs : \A t \in LogTenants(p) :
      LET roles == {role_set(t)[i] : i \in DOMAIN role_set(t)}
          clean == {role \in roles :
                      \A a \in DOMAIN role.access :
                        role.access[a].application \notin args[p].exclude_apps}
          wanted == IF args[p].exclude_apps # {} THEN clean ELSE roles
          did(step) == {log[p][j].role : j \in {k \in StepsOf(p, step) : log[p][k].tenant = t}}
      IN /\ \A step \in {"translate", "generate", "emit", "persist"} :
              did(step) \subseteq {role.uuid : role \in wanted}
         /\ (\E i \in StepsOf(p, "tenant_done") : log[p][i].tenant = t) =>
              \A step \in {"translate", "emit", "persist"} :
                did(step) = {role.uuid : role \in wanted}

C13_Witness ==
    \E p \in Procs : \E i \in StepsOf(p, "tenant_done") :
      /\ args[p].exclude_apps # {}
      /\ \E j \in StepsOf(p, "persist") : log[p][j].tenant = log[p][i].tenant
      /\ \E r \in DOMAIN role_set(log[p][i].tenant) :
           \A j \in StepsOf(p, "translate") :
             log[p][j].role # role_set(log[p][i].tenant)[r].uuid

\* Helpers of the membership properties: the tuples a call has output while
\* migrating tenant t, the principals and groups of a tenant, the effective
\* platform-default group, and a member edge.
OutputFor(p, t) ==
    UNION {Range(log[p][i].rels) : i \in {k \in DOMAIN log[p] : log[p][k].tenant = t}}
PrincipalsOf(t) == Range(principal_set(t))
GroupsOf(t) == Range(group_set(t, hasPublicDefault))
OwnDefaultGroups(t) == {g \in GroupsOf(t) : g.platform_default}
EffectiveDefaultGroups(t) ==
    IF OwnDefaultGroups(t) # {} THEN OwnDefaultGroups(t) ELSE OwnDefaultGroups(PublicTenant)
MemberEdge(resource_type, resource_id, pr) ==
    [resource_type |-> <<"rbac", resource_type>>, resource_id |-> <<"str">> \o resource_id,
     relation |-> "member",
     subject_type |-> <<"rbac", "principal">>, subject_id |-> <<"str">> \o pr.uuid]

\* C14: for a tenant that has a cross-account principal, no tuple output while
\* migrating it, and no tuple in the store, is a member edge from the tenant's
\* effective platform-default group to a cross-account principal of the tenant.
C14_NoCrossAccountDefaultMember ==
    \A t \in tenantRows :
      (\E pr \in PrincipalsOf(t) : pr.cross_account) =>
        \A g \in EffectiveDefaultGroups(t) : \A pr \in PrincipalsOf(t) :
          pr.cross_account =>
            /\ MemberEdge("group", g.uuid, pr) \notin store
            /\ \A p \in Procs : MemberEdge("group", g.uuid, pr) \notin OutputFor(p, t)

C14_Witness ==
    \E p \in Procs : \E i \in StepsOf(p, "groups") :
      LET t == log[p][i].tenant
      IN /\ args[p].write_relationships
         /\ \E g \in OwnDefaultGroups(t) : \E k \in DOMAIN g.principals :
              g.principals[k].cross_account
         /\ \E g \in OwnDefaultGroups(t) : \E pr \in PrincipalsOf(t) :
              MemberEdge("group", g.uuid, pr) \in store

\* C15: no member tuple output while migrating a tenant, whether a tenant
\* member edge, a member edge of a group that is not platform-default or a
\* platform-default member edge, has a cross-account principal of the tenant as
\* its subject.
C15_NoCrossAccountSubject ==
    \A p \in Procs : \A t \in LogTenants(p) : \A rel \in OutputFor(p, t) :
      rel.relation = "member" =>
        \A pr \in PrincipalsOf(t) :
          pr.cross_account => rel.subject_id # <<"str">> \o pr.uuid

\* C16: the effective platform-default group of a tenant T is T's own group
\* flagged platform_default when T has one, and the public tenant's
\* platform-default group otherwise; the group-membership batch output for T
\* holds exactly one member edge from that group to each principal of T that is
\* not cross-account, in a group or not, and no member edge from the public
\* tenant's group when T has its own.
C16_DefaultGroupMembers ==
    \A p \in Procs : \A i \in StepsOf(p, "groups") :
      LET t == log[p][i].tenant
          rels == log[p][i].rels
      IN /\ Cardinality(EffectiveDefaultGroups(t)) = 1
         /\ \A g \in EffectiveDefaultGroups(t) : \A pr \in PrincipalsOf(t) :
              ~pr.cross_account =>
                Cardinality({k \in DOMAIN rels : rels[k] = MemberEdge("group", g.uuid, pr)}) = 1
         /\ OwnDefaultGroups(t) # {} =>
              \A g \in OwnDefaultGroups(PublicTenant) : \A k \in DOMAIN rels :
                rels[k].resource_id # <<"str">> \o g.uuid

C16_Witness ==
    \E p \in Procs : \E i, j \in StepsOf(p, "groups") :
      /\ OwnDefaultGroups(log[p][i].tenant) # {}
      /\ OwnDefaultGroups(log[p][j].tenant) = {}
      /\ \E pr \in PrincipalsOf(log[p][j].tenant) :
           /\ ~pr.cross_account
           /\ \A g \in GroupsOf(log[p][j].tenant) : \A k \in DOMAIN g.principals :
                g.principals[k] # pr

\* C17: the group-membership batch output for a tenant holds, for every group
\* of the tenant not flagged platform_default and every principal in it,
\* exactly one member edge from the group to the principal; the member list of
\* a group flagged platform_default adds no edge: the batch's edges from such a
\* group are one to each principal of the tenant that is not cross-account and
\* none to any other principal.
C17_ExplicitGroupMembers ==
    \A p \in Procs : \A i \in StepsOf(p, "groups") :
      LET t == log[p][i].tenant
          rels == log[p][i].rels
          edges(g, pr) == {k \in DOMAIN rels : rels[k] = MemberEdge("group", g.uuid, pr)}
      IN \A g \in GroupsOf(t) :
           IF ~g.platform_default
           THEN /\ \A k \in DOMAIN g.principals : Cardinality(edges(g, g.principals[k])) = 1
                /\ \A pr \in PrincipalsOf(t) \ Range(g.principals) : edges(g, pr) = {}
           ELSE \A pr \in PrincipalsOf(t) :
                  Cardinality(edges(g, pr)) = IF pr.cross_account THEN 0 ELSE 1

C17_Witness ==
    \E p \in Procs : \E i \in StepsOf(p, "groups") :
      /\ \E g \in GroupsOf(log[p][i].tenant) : ~g.platform_default /\ g.principals # <<>>
      /\ \E g \in GroupsOf(log[p][i].tenant) :
           g.platform_default /\ \E k \in DOMAIN g.principals : g.principals[k].cross_account

\* Helpers of scenario 1: a tenant with no roles, one group, flagged
\* platform_default, and one principal, not cross-account, in that group; the
\* tenants of that shape a call has finished; the four tuples the scenario lists.
Scenario1Shape(t) ==
    /\ role_set(t) = <<>>
    /\ Cardinality(GroupsOf(t)) = 1
    /\ Cardinality(PrincipalsOf(t)) = 1
    /\ \A g \in GroupsOf(t) : g.platform_default /\ Range(g.principals) = PrincipalsOf(t)
    /\ \A pr \in PrincipalsOf(t) : ~pr.cross_account
Scenario1Finished(p) ==
    {t \in {log[p][i].tenant : i \in StepsOf(p, "tenant_done")} : Scenario1Shape(t)}
Scenario1Listed(t) ==
    LET root == CHOOSE w \in RootsOf(t) : TRUE
        default == CHOOSE w \in DefaultsOf(t) : TRUE
        P == CHOOSE pr \in PrincipalsOf(t) : TRUE
    IN { [resource_type |-> <<"rbac", "workspace">>, resource_id |-> <<"str">> \o default.uuid,
          relation |-> "parent",
          subject_type |-> <<"rbac", "workspace">>, subject_id |-> <<"str">> \o root.uuid],
         [resource_type |-> <<"rbac", "workspace">>, resource_id |-> <<"str">> \o root.uuid,
          relation |-> "parent",
          subject_type |-> <<"rbac", "tenant">>, subject_id |-> <<"str", "org", t>>],
         [resource_type |-> <<"rbac", "tenant">>, resource_id |-> <<"str", "org", t>>,
          relation |-> "platform",
          subject_type |-> <<"rbac", "platform">>, subject_id |-> ENV_NAME],
         [resource_type |-> <<"rbac", "tenant">>, resource_id |-> <<"str", "org", t>>,
          relation |-> "member",
          subject_type |-> <<"rbac", "principal">>, subject_id |-> <<"str">> \o P.uuid] }

\* C18 as stated: the tuples output by migrating a tenant T of scenario 1 are
\* exactly DEFAULT parent ROOT, ROOT parent T, T platform ENV and T member P.
C18_Scenario1FourTuples ==
    \A p \in Procs : \A t \in Scenario1Finished(p) :
      OutputFor(p, t) = Scenario1Listed(t)

\* C18, amended: the tuples output by migrating a tenant T of scenario 1 are
\* exactly DEFAULT parent ROOT, ROOT parent T, T platform ENV, T member P and
\* G member P, the platform-default member edge of P, and no other tuple.
C18_Scenario1FiveTuples ==
    \A p \in Procs : \A t \in Scenario1Finished(p) :
      OutputFor(p, t) =
        Scenario1Listed(t)
          \cup {MemberEdge("group", g.uuid, pr) : g \in GroupsOf(t), pr \in PrincipalsOf(t)}

C18_Witness ==
    \E p \in Procs : pc[p] = "done" /\ Scenario1Finished(p) # {}

\* Helpers of the rerun properties: a call is migrating, or has migrated, with
\* write disabled a tenant that an earlier call, also with write disabled, has
\* migrated to the end; the tuples of a sequence of steps.
SecondDryRun(p, t) ==
    /\ firstMig[t].run \notin {0, args[p].run}
    /\ ~firstMig[t].write_relationships
    /\ ~args[p].write_relationships
    /\ t \in LogTenants(p)
TuplesOf(steps) == UNION {Range(steps[i].rels) : i \in DOMAIN steps}
Finished(steps) == \E i \in DOMAIN steps : steps[i].step = "tenant_done"

Outputs(p) ==
    /\ Len(log'[p]) = Len(log[p]) + 1
    /\ log'[p][Len(log'[p])].step \in {"workspace", "users", "groups", "emit"}

\* C20: a call with write_relationships false never changes the tuple store,
\* at bootstrap, tenant-user edges, group-membership edges or any role's
\* emission; every batch a call with write_relationships true outputs is in the
\* store after the step; and the store changes only by such a batch being added.
C20_WriteFlag ==
    [][/\ \A p \in Procs :
            Outputs(p) =>
              LET batch == Range(log'[p][Len(log'[p])].rels)
              IN IF args[p].write_relationships
                 THEN store' = store \cup batch
                 ELSE store' = store
       /\ store' # store =>
            \E p \in Procs : args[p].write_relationships /\ Outputs(p)
      ]_vars

C20_Witness ==
    /\ store # {}
    /\ \E p \in Procs :
         /\ pc[p] = "done"
         /\ ~args[p].write_relationships
         /\ StepsOf(p, "workspace") # {}
         /\ \E i \in StepsOf(p, "groups") :
              \E k \in DOMAIN log[p][i].rels : log[p][i].rels[k] \notin store

\* Helpers of the generator properties: a mapping's resource is a workspace
\* other than the call's default workspace; the parent edge of that workspace.
OnOtherWorkspace(p, m) ==
    /\ m.resource_type = <<"rbac", "workspace">>
    /\ m.resource_id # <<"str">> \o loc[p].default.uuid
ParentToDefault(p, m) ==
    [resource_type |-> m.resource_type, resource_id |-> m.resource_id, relation |-> "parent",
     subject_type |-> <<"rbac", "workspace">>, subject_id |-> <<"str">> \o loc[p].default.uuid]

RowsBy(n) == {r \in bindingMappings : r.by = <<"run", n>>}
MigratedRoles(p) ==
    {role \in AllRoles : \E i \in StepsOf(p, "translate") : log[p][i].role = role.uuid}
ScopeKeys(role) ==
    UNION {LET objs == v1_role_to_v2_bindings(role, d, {})
           IN {MappingKey(objs[i]) : i \in DOMAIN objs} : d \in DefaultsOf(role.tenant)}

\* C23: every step of a run keeps every BindingMapping row that exists, as it
\* is; the table changes only at a persist, and only by rows of the running
\* call being added, whether the call then completes or aborts.
C23_InsertOnly ==
    [][/\ bindingMappings \subseteq bindingMappings'
       /\ \A r \in bindingMappings' \ bindingMappings :
            \E p \in Procs : pc[p] = "persist" /\ r.by = <<"run", args[p].run>>
      ]_vars

C23_Witness ==
    \E p \in Procs :
      /\ pc[p] \in {"done", "failed"}
      /\ args[p].run > 1
      /\ RowsBy(args[p].run) # {}
      /\ \E n \in 1..(args[p].run - 1) : RowsBy(n) # {}

\* C24: when a call of migrate_data has returned, every role it migrated was
\* persisted once and has exactly one row of that call per resource scope the
\* translator produced, no scope twice, and the call added no row for a role
\* it did not migrate.
C24_RowsOncePerScope ==
    \A p \in Procs :
      pc[p] = "done" =>
        LET mine == RowsBy(args[p].run)
        IN /\ \A role \in MigratedRoles(p) :
                LET rows == {r \in mine : r.role = role.uuid}
                IN /\ Cardinality({i \in StepsOf(p, "persist") : log[p][i].role = role.uuid}) = 1
                   /\ {MappingKey(r) : r \in rows} = ScopeKeys(role)
                   /\ Cardinality(rows) = Cardinality(ScopeKeys(role))
                   /\ \A r \in bindingMappings : MappingKey(r) \in ScopeKeys(role) => r \in rows
           /\ \A r \in mine : \E role \in MigratedRoles(p) : r.role = role.uuid

C24_Witness ==
    \E p \in Procs :
      /\ pc[p] = "done"
      /\ \E role \in MigratedRoles(p) : Cardinality(ScopeKeys(role)) = 2
      /\ AllRoles \ MigratedRoles(p) # {}

\* Whether a row holds the key of a mapping.
HasRow(m) == \E r \in bindingMappings : MappingKey(r) = MappingKey(m)

\* C25: a call whose batch insert of a role's mappings failed on a row that
\* already exists has inserted none of the mappings of that batch: the table
\* holds no row of that call for the role.
C25_AllOrNothing ==
    \A p \in Procs :
      (pc[p] = "failed" /\ err[p].step = "persist") =>
        /\ err[p].kind = "IntegrityError"
        /\ \E i \in DOMAIN loc[p].mappings : HasRow(loc[p].mappings[i])
        /\ \A r \in RowsBy(args[p].run) : r.role # loc[p].role.uuid

C25_Witness ==
    \E p \in Procs :
      /\ pc[p] = "failed"
      /\ err[p].step = "persist"
      /\ \E i, j \in DOMAIN loc[p].mappings :
           HasRow(loc[p].mappings[i]) /\ ~HasRow(loc[p].mappings[j])

\* The log steps that come after the statement at a position, within a tenant.
StepsFrom(position) ==
    CASE position = "ws_emit" -> {"workspace", "users", "groups", "translate", "generate",
                                  "emit", "persist", "tenant_done"}
      [] position = "users" -> {"users", "groups", "translate", "generate", "emit",
                                "persist", "tenant_done"}
      [] position = "groups" -> {"groups", "translate", "generate", "emit", "persist",
                                 "tenant_done"}
      [] OTHER -> {"tenant_done"}

\* C26: a call in which the sink failed while a batch was output (bootstrap,
\* tenant-user, group-membership or a role's tuples) is left with that error at
\* the tenant it was migrating: no later step of the tenant has run, the
\* mappings of the role whose tuples were being output are not persisted, and
\* no later tenant was touched.
C26_SinkFailureHalts ==
    \A p \in Procs :
      err[p].kind = "SinkError" =>
        /\ pc[p] = "failed"
        /\ err[p].step \in {"ws_emit", "users", "groups", "emit"}
        /\ queue[p] # <<>> /\ Head(queue[p]) = err[p].tenant
        /\ \A i \in DOMAIN log[p] :
             log[p][i].tenant = err[p].tenant => log[p][i].step \notin StepsFrom(err[p].step)
        /\ err[p].step = "emit" =>
             /\ \A i \in DOMAIN log[p] :
                  log[p][i].role = loc[p].role.uuid => log[p][i].step \notin {"emit", "persist"}
             /\ \A r \in RowsBy(args[p].run) : r.role # loc[p].role.uuid
             /\ \A i \in DOMAIN loc[p].roles :
                  \A k \in DOMAIN log[p] : log[p][k].role # loc[p].roles[i].uuid
        /\ err[p].step # "emit" =>
             \A r \in RowsBy(args[p].run) :
               \A role \in AllRoles : role.uuid = r.role => role.tenant # err[p].tenant
        /\ LaterUntouched(p)
        /\ count[p] = Cardinality(StepsOf(p, "tenant_done"))

C26_Witness ==
    \E p \in Procs :
      /\ pc[p] = "failed"
      /\ err[p].kind = "SinkError"
      /\ err[p].step = "emit"
      /\ loc[p].mappings # <<>>
      /\ \E r \in RowsBy(args[p].run) :
           \E role \in AllRoles : role.uuid = r.role /\ role.tenant = err[p].tenant

\* C27: at every point of a call the counter of completed tenants is the
\* number of tenants whose migration finished without error; it is at most the
\* total counted at the start, which is the number of tenants selected; and
\* when the call has returned without error the counter equals the total.
C27_CountIsFinished ==
    \A p \in Procs :
      /\ count[p] = Cardinality(StepsOf(p, "tenant_done"))
      /\ count[p] = Cardinality({log[p][i].tenant : i \in StepsOf(p, "tenant_done")})
      /\ count[p] <= total[p]
      /\ pc[p] # "idle" => total[p] = Cardinality(SelectedTenants(args[p].orgs))
      /\ pc[p] = "done" => count[p] = total[p]
      /\ pc[p] = "failed" => count[p] < total[p]

C27_Witness ==
    \E p \in Procs :
      /\ pc[p] = "failed"
      /\ count[p] >= 1
      /\ total[p] = NumTenants

\* The BindingMapping rows recorded for a role.
RecordedFor(role) == {r \in bindingMappings : r.role = role.uuid}

\* C30: when migrate_role is about to translate a role, the current bindings
\* the translator is given are the BindingMapping rows recorded for the role,
\* and none only when the role has no row.
C30_TranslatorGivenRecordedRows ==
    \A p \in Procs :
      pc[p] = "translate" =>
        {MappingKey(m) : m \in CurrentBindings(loc[p].role)}
          = {MappingKey(r) : r \in RecordedFor(loc[p].role)}

\* Helpers of the proxy properties: a finished call, and the positions of the
\* items _process_data is to keep.
Returned(name) == proxyCall.call = name /\ proxyCall.done
KeptPositions(in) ==
    {i \in DOMAIN in.data : ~in.org_id_filter \/ get(in.data[i], "org_id") = in.org_id}

\* C28: _process_data returns one processed item per input item it keeps, in
\* input order: with org_id_filter the items whose org_id equals the given
\* org_id, without it every item; a processed item carries user_id, the source
\* item's id, exactly when return_id is true.
C28_ProcessData ==
    Returned("_process_data") =>
      LET in == proxyCall.input
          out == proxyCall.result
          kept == KeptPositions(in)
          Rank(i) == Cardinality({k \in kept : k <= i})
      IN /\ Len(out) = Cardinality(kept)
         /\ \A i \in kept :
              /\ \A k \in CopiedKeys : out[Rank(i)][k] = get(in.data[i], k)
              /\ out[Rank(i)]["external_source_id"] = get(in.data[i], "id")
              /\ out[Rank(i)]["org_id"] = get(in.data[i], "org_id")
              /\ in.org_id_filter => out[Rank(i)]["org_id"] = in.org_id
              /\ ("user_id" \in DOMAIN out[Rank(i)]) <=> in.return_id
              /\ in.return_id => out[Rank(i)]["user_id"] = get(in.data[i], "id")

C28_Witness ==
    /\ Returned("_process_data")
    /\ proxyCall.input.org_id_filter
    /\ proxyCall.input.return_id
    /\ Len(proxyCall.input.data) = 2
    /\ Len(proxyCall.result) = 1
    /\ get(proxyCall.input.data[1], "org_id") # proxyCall.input.org_id

\* Helpers: a finished username_only call, the principals it may list, the
\* page it asks for.
UsernameOnly == Returned("_request_principals") /\ proxyCall.input.params.username_only = "true"
EligibleUsers(in) ==
    {pr \in Range(PrincipalTable) :
       pr.type = "user" /\ org_id(pr.tenant) = in.org_id /\ ~pr.cross_account}
NamedUsers(in) ==
    IF in.data.kind = "users"
    THEN {pr \in EligibleUsers(in) : username(pr) \in Range(in.data.users)}
    ELSE EligibleUsers(in)
PageOffset(in) == IF in.params.offset = NoParam THEN 0 ELSE in.params.offset
PageLimit(in, userCount) == IF in.params.limit = NoParam THEN userCount ELSE in.params.limit
Smaller(a, b) == IF a < b THEN a ELSE b
PageOf(in, users) ==
    /\ ~proxyCall.contacted
    /\ proxyCall.result.status_code = 200
    /\ proxyCall.result.userCount = Cardinality(users)
    /\ LET data == proxyCall.result.data
           userCount == proxyCall.result.userCount
           rest == IF userCount > PageOffset(in) THEN userCount - PageOffset(in) ELSE 0
           Listed(pr) == pr \in users
           all == SelectSeq(PrincipalTable, Listed)
       IN /\ Len(data) = Smaller(PageLimit(in, userCount), rest)
          /\ \A j \in DOMAIN data : data[j] = [username |-> username(all[PageOffset(in) + j])]

\* C29 as stated: with username_only=true the answer comes from the local
\* store, userCount is the number of non-cross-account user principals of the
\* requested org, and data is the slice [offset, offset+limit) of that list.
C29_UserCountOfOrg ==
    UsernameOnly => PageOf(proxyCall.input, EligibleUsers(proxyCall.input))

\* C29: with username_only=true the answer comes from the local store without
\* the service being contacted: userCount is the number of non-cross-account
\* user principals of the requested org, among those named in the request
\* body's users when it has one, whatever limit and offset are, and data is
\* the slice [offset, offset+limit) of the list of their usernames (offset 0
\* and limit userCount when not given).
C29_UsernameOnlyPage ==
    UsernameOnly => PageOf(proxyCall.input, NamedUsers(proxyCall.input))

C29_Witness ==
    /\ UsernameOnly
    /\ proxyCall.input.data.kind = "users"
    /\ proxyCall.input.params.offset = 1
    /\ proxyCall.input.params.limit = 1
    /\ Cardinality(EligibleUsers(proxyCall.input)) = 2
    /\ proxyCall.result.userCount = 1
    /\ proxyCall.result.data = <<>>

\* Helpers of the hierarchy property: the workspace-to-workspace parent tuples
\* output for the tenant a call is migrating (the bootstrap's and the
\* generator's), and the workspaces reached from a set by following them.
ParentEdges(p) ==
    {e \in Range(WorkspaceRelationships(loc[p].tenant, loc[p].root, loc[p].default))
             \cup Range(loc[p].rels) :
       /\ e.relation = "parent"
       /\ e.resource_type = <<"rbac", "workspace">>
       /\ e.subject_type = <<"rbac", "workspace">>}
ParentsOf(E, S) == {e.subject_id : e \in {x \in E : x.resource_id \in S}}
RECURSIVE Ancestors(_, _, _)
Ancestors(E, S, n) == IF n = 0 THEN S ELSE Ancestors(E, S \cup ParentsOf(E, S), n - 1)

\* C31: the workspace parent tuples output while a tenant is migrated, the
\* bootstrap's DEFAULT-parent-ROOT together with the parent tuples the generator
\* adds, form no cycle: no workspace is among its own ancestors.
C31_NoParentCycle ==
    \A p \in Procs :
      pc[p] = "emit" =>
        LET E == ParentEdges(p)
        IN \A e \in E :
             e.resource_id \notin Ancestors(E, ParentsOf(E, {e.resource_id}), Cardinality(E))

\* C32: a call left with the conflict error at the persist of a role has output
\* no tuple of that role: its log holds no emit step of the role and, with
\* writing enabled, the store holds none of the tuples generated for the role.
C32_NoTupleBeforeConflict ==
    \A p \in Procs :
      (pc[p] = "failed" /\ err[p].step = "persist" /\ err[p].kind = "IntegrityError") =>
        /\ \A i \in StepsOf(p, "emit") : log[p][i].role # loc[p].role.uuid
        /\ args[p].write_relationships => Range(loc[p].rels) \cap store = {}

\* A step of a call made with write_relationships false.
DryRunStep(p) == ~args[p].write_relationships /\ SameCall(p) /\ pc'[p] # pc[p]

\* C33 as stated: a step of a run with write_relationships false changes
\* neither the Workspace rows nor the BindingMapping rows.
C33_DryRunChangesNothing ==
    [][\A p \in Procs :
         DryRunStep(p) => workspaces' = workspaces /\ bindingMappings' = bindingMappings
      ]_vars

\* C33: a run with write_relationships false leaves the tuple store and every
\* existing Workspace and BindingMapping row as they are, and it does add rows:
\* each workspace its bootstrap creates is saved, and the persist of a role
\* inserts a BindingMapping row for each of the role's mappings.
C33_DryRunWritesRows ==
    [][\A p \in Procs :
         DryRunStep(p) =>
           /\ store' = store
           /\ workspaces \subseteq workspaces'
           /\ bindingMappings \subseteq bindingMappings'
           /\ loc'[p].created > loc[p].created =>
                /\ Cardinality(workspaces') = Cardinality(workspaces) + 1
                /\ \E w \in workspaces' \ workspaces :
                     w.tenant = loc[p].tenant /\ w \in {loc'[p].root, loc'[p].default}
           /\ (pc[p] = "persist" /\ pc'[p] = "role_loop") =>
                /\ Cardinality(bindingMappings' \ bindingMappings) = Len(loc[p].mappings)
                /\ \A i \in DOMAIN loc[p].mappings :
                     \E r \in bindingMappings' \ bindingMappings :
                       MappingKey(r) = MappingKey(loc[p].mappings[i])
      ]_vars

C33_Witness ==
    \E p \in Procs :
      /\ pc[p] = "done"
      /\ ~args[p].write_relationships
      /\ runs = 1
      /\ store = {}
      /\ \E t \in LogTenants(p) : WellFormed(t)
      /\ \E role \in MigratedRoles(p) : Cardinality(RowsBy(args[p].run)) >= 2

\* C34: after a call aborted, nothing it did before is undone: for every step
\* in its log, of the tenants completed earlier and of the failing tenant, the
\* workspaces of a bootstrap are in the table, the tuples of an output batch
\* are in the store when writing was enabled, and the rows of a persisted role
\* are in the table; the workspaces the failing tenant's bootstrap obtained
\* are in the table too.
C34_NoRollback ==
    \A p \in Procs :
      pc[p] = "failed" =>
        /\ \A i \in DOMAIN log[p] :
             LET e == log[p][i]
             IN /\ e.step = "workspace" => WellFormed(e.tenant)
                /\ args[p].write_relationships => Range(e.rels) \subseteq store
                /\ e.step = "persist" =>
                     \A role \in AllRoles :
                       role.uuid = e.role =>
                         {MappingKey(r) : r \in {x \in RowsBy(args[p].run) : x.role = e.role}}
                           = ScopeKeys(role)
        /\ \A w \in {loc[p].root, loc[p].default} : w # NoRow => w \in workspaces
        /\ count[p] = Cardinality(StepsOf(p, "tenant_done"))

C34_Witness ==
    \E p \in Procs :
      /\ pc[p] = "failed"
      /\ args[p].write_relationships
      /\ count[p] >= 1
      /\ \E i \in StepsOf(p, "persist") : log[p][i].tenant = err[p].tenant

\* C35: while a role of a tenant is migrated, the default workspace the call
\* holds is the DEFAULT workspace row of that tenant, the one its bootstrap
\* returned in this call, and the scopes of the role's mappings are that
\* workspace or a workspace named by the role, never another tenant's default.
C35_OwnDefaultWorkspace ==
    \A p \in Procs :
      pc[p] \in {"translate", "generate", "emit", "persist"} =>
        /\ loc[p].role.tenant = loc[p].tenant
        /\ loc[p].default \in DefaultsOf(loc[p].tenant)
        /\ \E i \in StepsOf(p, "workspace") : log[p][i].tenant = loc[p].tenant
        /\ pc[p] # "translate" =>
             \A i \in DOMAIN loc[p].mappings :
               /\ loc[p].mappings[i].resource_id
                    \in {str(loc[p].default.uuid), OtherWorkspace(loc[p].tenant)}
               /\ \A w \in workspaces :
                    loc[p].mappings[i].resource_id = str(w.uuid) => w.tenant = loc[p].tenant

C35_Witness ==
    \E p \in Procs :
      /\ pc[p] = "persist"
      /\ count[p] >= 1
      /\ Cardinality(DefaultsOf(loc[p].tenant)) = 1
      /\ \E w \in workspaces : w.type = "default" /\ w.tenant # loc[p].tenant

\* A tenant for which no platform-default group is defined, by itself or by
\* the public tenant.
NoDefaultGroup(t) ==
    /\ ~hasPublicDefault
    /\ \A i \in DOMAIN group_set(t, hasPublicDefault) :
         ~group_set(t, hasPublicDefault)[i].platform_default

\* C36: for a tenant without a platform-default group of its own, when the
\* public tenant has none either, a call never gets past the group-membership
\* step: it outputs no group-membership batch and migrates no role of the
\* tenant, and once it has reached that step it is left with DoesNotExist at
\* that tenant, the later tenants untouched.
C36_NoDefaultGroupFails ==
    \A p \in Procs : \A t \in Tenants :
      NoDefaultGroup(t) =>
        /\ \A i \in DOMAIN log[p] :
             log[p][i].tenant = t => log[p][i].step \in {"workspace", "users"}
        /\ \A r \in bindingMappings : \A role \in AllRoles :
             (r.role = role.uuid /\ r.by = <<"run", args[p].run>>) => role.tenant # t
        /\ (loc[p].tenant = t /\ \E i \in StepsOf(p, "users") : log[p][i].tenant = t) =>
             \/ pc[p] = "groups"
             \/ /\ pc[p] = "failed"
                /\ err[p] = [kind |-> "DoesNotExist", tenant |-> t, step |-> "groups"]
                /\ Head(queue[p]) = t
                /\ LaterUntouched(p)

C36_Witness ==
    \E p \in Procs :
      /\ pc[p] = "failed"
      /\ err[p].kind = "DoesNotExist"
      /\ NoDefaultGroup(err[p].tenant)
      /\ count[p] >= 1
      /\ role_set(err[p].tenant) # <<>>

\* The tuple (tenant t) member (principal pr).
TenantMember(t, pr) ==
    [resource_type |-> <<"rbac", "tenant">>, resource_id |-> org_id(t), relation |-> "member",
     subject_type |-> <<"rbac", "principal">>, subject_id |-> <<"str">> \o pr.uuid]

\* C37: the batch migrate_users outputs for a tenant holds, for each principal
\* of the tenant, exactly one tuple (tenant) member (principal), whatever the
\* principal's type and whether or not it is in a group, and nothing else: no
\* tuple of a principal of another tenant.
C37_OneTenantMemberEach ==
    \A p \in Procs :
      \A i \in StepsOf(p, "users") :
        LET t == log[p][i].tenant
            rels == log[p][i].rels
        IN /\ Len(rels) = Cardinality(PrincipalsOf(t))
           /\ \A pr \in PrincipalsOf(t) :
                Cardinality({k \in DOMAIN rels : rels[k] = TenantMember(t, pr)}) = 1
           /\ \A k \in DOMAIN rels : \E pr \in PrincipalsOf(t) : rels[k] = TenantMember(t, pr)
           /\ \A k \in DOMAIN rels : \A u \in Tenants \ {t} : \A pr \in PrincipalsOf(u) :
                rels[k].subject_id # <<"str">> \o pr.uuid

C37_Witness ==
    \E p \in Procs :
      \E i \in StepsOf(p, "users") :
        /\ \E pr \in PrincipalsOf(log[p][i].tenant) : pr.type = "service-account"
        /\ \E pr \in PrincipalsOf(log[p][i].tenant) :
             \A g \in GroupsOf(log[p][i].tenant) : pr \notin Range(g.principals)
        /\ Len(log[p][i].rels) = 4
        /\ Cardinality(LogTenants(p)) = 2

\* C38: a call of _request_principals that went to the service returns a
\* result for every outcome and raises nothing: a connection error gives status
\* 500 with an errors list; a 200 whose body is not valid JSON gives status 500
\* with an errors list; a 404 gives status 404 with a Not Found error; any
\* other status gives that status with an Unexpected error entry; a 200 with a
\* valid body gives data and no errors key.
C38_OutcomeMapping ==
    (Returned("_request_principals") /\ proxyCall.contacted) =>
      LET o == proxyCall.input.outcome
          r == proxyCall.result
      IN /\ "raised" \notin DOMAIN r
         /\ o.kind = "ConnectionError" =>
              r.status_code = 500 /\ "errors" \in DOMAIN r /\ Len(r.errors) = 1
         /\ (o.kind = "response" /\ o.status_code = 200 /\ o.body = "invalid") =>
              r.status_code = 500 /\ "errors" \in DOMAIN r /\ Len(r.errors) = 1
         /\ (o.kind = "response" /\ o.status_code = 404) =>
              r.status_code = 404 /\ "errors" \in DOMAIN r /\ r.errors[1].detail = "Not Found."
         /\ (o.kind = "response" /\ o.status_code \notin {200, 404}) =>
              /\ r.status_code = o.status_code
              /\ "errors" \in DOMAIN r
              /\ r.errors[1].detail = "Unexpected error."
         /\ (o.kind = "response" /\ o.status_code = 200 /\ o.body # "invalid") =>
              r.status_code = 200 /\ "data" \in DOMAIN r /\ "errors" \notin DOMAIN r

====
